---- MODULE Spec2Model ----
(***************************************************************************)
(* DataInspect: the tabular data preparation engine.                       *)
(*   - the filter engine of ChartBase (src/src/visualization/chart_base.py)*)
(*   - DataTransformation / DataFrameTransformer                           *)
(*     (src/src/data/transformations/data_transformation.py)               *)
(* A table (pandas DataFrame) is a record of its row labels, its column    *)
(* names and one sequence of cells per column.  A cell is a number, a text *)
(* or null (NaN/None).                                                     *)
(***************************************************************************)
EXTENDS Integers, Sequences, FiniteSets, TLC

VARIABLES
    data,              \* the caller's table (Dataset.data)
    filters,           \* config['filter']['columns']
    transformations,   \* DataFrameTransformer.transformations
    result,            \* the table the last call returned
    op,                \* the last operation
    applied,           \* the step DataTransformation.apply was called on
    raised,            \* whether the last call raised
    reference,         \* the step list as a plain sequence, kept beside it
    profile,           \* the Column the last Column.from_series returned
    dataset,           \* the Dataset object
    clock,             \* the time datetime.now() last returned
    project,           \* the Project object
    received,          \* the calls of on_subject_change made so far, in order
    dialog             \* the filter rows of the visualization dialog and its config

\* the objects beside the table engine, and the state of the table engine
objects == <<dataset, clock, project, received, dialog>>
engine == <<data, filters, transformations, result, applied, reference, profile>>

vars == <<data, filters, transformations, result, op, applied, raised, reference,
          profile, dataset, clock, project, received, dialog>>

(***************************************************************************)
(* Bounds of the model.                                                    *)
(***************************************************************************)
MaxRows == 2
MaxVal == 2
MaxClauses == 3
MaxSteps == 2
MaxClock == 3         \* readings of the clock that differ
MaxSources == 2       \* data sources in a project
LongRows == 25        \* rows of the long table

(***************************************************************************)
(* Cells and operands.                                                     *)
(***************************************************************************)
\* a number cell holds the float n/d in lowest terms (d = 1 for a whole
\* number), a bool cell holds n = 1 for True and 0 for False, and a root cell
\* holds the float of sign n and square |n|/d
Null == [k |-> "null", n |-> 0, d |-> 1, s |-> ""]
Num(i) == [k |-> "num", n |-> i, d |-> 1, s |-> ""]
Str(x) == [k |-> "str", n |-> 0, d |-> 1, s |-> x]
Bool(b) == [k |-> "bool", n |-> IF b THEN 1 ELSE 0, d |-> 1, s |-> ""]

IsNull(c) == c.k = "null"
IsNum(c) == c.k = "num"
IsStr(c) == c.k = "str"
IsBool(c) == c.k = "bool"

\* float arithmetic on the values the model holds, kept exact as fractions
Abs(i) == IF i < 0 THEN 0 - i ELSE i

RECURSIVE GCD(_, _)
GCD(x, y) == IF y = 0 THEN x ELSE GCD(y, x % y)

\* the number cell num/den, den # 0
Ratio(num, den) ==
    LET g == GCD(Abs(num), Abs(den))
        sign == IF den < 0 THEN 0 - 1 ELSE 1
    IN [k |-> "num", n |-> sign * (num \div g), d |-> sign * (den \div g), s |-> ""]

\* the root cell of sign num and square |num|/den, den > 0
Root(num, den) ==
    LET g == GCD(Abs(num), den)
    IN [k |-> "root", n |-> num \div g, d |-> den \div g, s |-> ""]

\* a bool counts as 1 or 0 in arithmetic
Plus(x, y) == Ratio(x.n * y.d + y.n * x.d, x.d * y.d)
Minus(x, y) == Ratio(x.n * y.d - y.n * x.d, x.d * y.d)
Times(x, y) == Ratio(x.n * y.n, x.d * y.d)
Over(x, y) == Ratio(x.n * y.d, x.d * y.n)
Less(x, y) == x.n * y.d < y.n * x.d

Range(f) == {f[i] : i \in DOMAIN f}

\* the texts Python's float() accepts, with their values ("inf" apart)
NumericText == {"0", "1", "2", "3", "4", "5"}
TextValue(x) == CASE x = "0" -> 0 [] x = "1" -> 1 [] x = "2" -> 2 [] x = "3" -> 3
                  [] x = "4" -> 4 [] x = "5" -> 5

\* str.lower() on the texts of the model
Lower(x) == CASE x = "X" -> "x" [] x = "Y" -> "y" [] x = "Y " -> "y " [] OTHER -> x

\* str.upper() on the texts of the model
Upper(x) == CASE x = "x" -> "X" [] x = "y" -> "Y" [] x = "abc" -> "ABC"
              [] x = "inf" -> "INF" [] x = " x" -> " X" [] OTHER -> x

\* str.strip() on the texts of the model
Strip(x) == CASE x = " x" -> "x" [] x = "Y " -> "Y" [] OTHER -> x

\* re.sub(pattern, replacement, x) for the one-letter patterns of the model
ReSub(pattern, replacement, x) ==
    CASE pattern = "x" /\ x = "x" -> replacement
      [] pattern = "x" /\ x = " x" -> " " \o replacement
      [] pattern = "Y" /\ x = "Y" -> replacement
      [] pattern = "Y" /\ x = "Y " -> replacement \o " "
      [] pattern = "1" /\ x = "1" -> replacement
      [] OTHER -> x

(***************************************************************************)
(* Tables.                                                                 *)
(***************************************************************************)
NRows(df) == Len(df.index)

HasColumn(df, column) == column \in Range(df.columns)

RangeIndex(n) == [i \in 1..n |-> i - 1]

IndexIsUnique(df) ==
    \A i, j \in 1..NRows(df) : df.index[i] = df.index[j] => i = j

\* the positions of a boolean mask that are set, in row order
RECURSIVE Positions(_, _)
Positions(mask, i) ==
    IF i > Len(mask) THEN <<>>
    ELSE (IF mask[i] THEN <<i>> ELSE <<>>) \o Positions(mask, i + 1)

\* DataFrame.iloc[positions]: the rows at the given positions, labels kept
ILoc(df, pos) ==
    [index |-> [j \in 1..Len(pos) |-> df.index[pos[j]]],
     columns |-> df.columns,
     cells |-> [c \in DOMAIN df.cells |->
                   [j \in 1..Len(pos) |-> df.cells[c][pos[j]]]]]

\* the rows of the mask taken from the last to the first
SelectRowsLastFirst(df, mask) ==
    LET pos == Positions(mask, 1)
    IN  ILoc(df, [j \in 1..Len(pos) |-> pos[Len(pos) + 1 - j]])

\* DataFrame[mask] for a boolean mask aligned with the table's rows
SelectRows(df, mask) == ILoc(df, Positions(mask, 1))

\* DataFrame.reset_index(drop=True)
ResetIndex(df) == [df EXCEPT !.index = RangeIndex(NRows(df))]

\* Index.isin(other): one boolean per row label
IndexIsIn(df, other) ==
    [i \in 1..NRows(df) |-> df.index[i] \in Range(other.index)]

(***************************************************************************)
(* Filter clauses: config['filter']['columns'] is a list of dictionaries   *)
(* {column, type, operator, value, value2, logic}.  The operands are None  *)
(* (Null), a number, or the text of a dialog field.                        *)
(***************************************************************************)
Clause(column, type, operator, value, value2, logic) ==
    [column |-> column, type |-> type, operator |-> operator,
     value |-> value, value2 |-> value2, logic |-> logic]

\* what a type filter hands back: the rows kept, or an exception it let escape
Returned(df) == [raised |-> FALSE, df |-> df]
Escaped(df) == [raised |-> TRUE, df |-> df]

\* "return data": a type filter that could not do its work hands its input back
NothingKept(df) == Returned(ILoc(df, <<>>))
Unfiltered(df) == Returned(df)

\* float(value): the operand converts, or float() raises ValueError
FloatConverts(v) == IsNum(v) \/ (IsStr(v) /\ (v.s \in NumericText \/ v.s = "inf"))
Float(v) ==
    [inf |-> IsStr(v) /\ v.s = "inf",
     n |-> IF IsNum(v) THEN v.n
           ELSE IF IsStr(v) /\ v.s \in NumericText THEN TextValue(v.s) ELSE 0]

\* int(value): the operand converts, or int() raises ValueError
IntConverts(v) == IsNum(v) \/ (IsStr(v) /\ v.s \in NumericText)
Int_(v) == IF IsNum(v) THEN v.n ELSE TextValue(v.s)

\* comparisons of a cell's number with a float operand (which may be inf)
FEq(n, f) == ~f.inf /\ n = f.n
FGt(n, f) == ~f.inf /\ n > f.n
FLt(n, f) == f.inf \/ n < f.n
FGe(n, f) == ~f.inf /\ n >= f.n
FLe(n, f) == f.inf \/ n <= f.n
\* n % f == 0 for n >= 0 and f > 0
FDivides(n, f) == IF f.inf THEN n = 0 ELSE n % f.n = 0

HasText(col) == \E i \in DOMAIN col : IsStr(col[i])

MaskOf(col, P(_)) == [i \in DOMAIN col |-> P(col[i])]

\* the n-th, 2n-th, ... row, counted from one
EveryNthCountedFromOne(len, n, at) == [j \in 1..(len \div n) |-> j * n]

\* range(0, len(data), n) as 1-based positions
RECURSIVE EveryNthPositions(_, _, _)
EveryNthPositions(len, n, at) ==
    IF at >= len THEN <<>> ELSE <<at + 1>> \o EveryNthPositions(len, n, at + n)

Min2(x, y) == IF x <= y THEN x ELSE y

\* DataFrame.head(n) / DataFrame.tail(n) for n > 0
HeadRows(df, n) == ILoc(df, [j \in 1..Min2(n, NRows(df)) |-> j])
TailRows(df, n) ==
    LET k == Min2(n, NRows(df))
    IN ILoc(df, [j \in 1..k |-> NRows(df) - k + j])

\* ChartBase._filter_dataframe
filter_dataframe(df, mask) == SelectRows(df, mask)

\* ChartBase._apply_numeric_filter
apply_numeric_filter(df, column, operator, value, value2) ==
    IF (~IsNull(value) /\ ~FloatConverts(value))
         \/ (~IsNull(value2) /\ ~FloatConverts(value2))
    THEN Unfiltered(df)                     \* ValueError, caught
    ELSE
      LET has1 == ~IsNull(value)
          has2 == ~IsNull(value2)
          f1 == Float(value)
          f2 == Float(value2)
          col == df.cells[column]
          positive == f1.inf \/ f1.n > 0
      IN CASE operator = "equals" /\ has1 ->
                Returned(filter_dataframe(df,
                    MaskOf(col, LAMBDA c : IsNum(c) /\ FEq(c.n, f1))))
           [] operator = "greater_than" /\ has1 ->
                IF HasText(col) THEN Unfiltered(df)     \* TypeError, caught
                ELSE Returned(filter_dataframe(df,
                    MaskOf(col, LAMBDA c : IsNum(c) /\ FGt(c.n, f1))))
           [] operator = "less_than" /\ has1 ->
                IF HasText(col) THEN Unfiltered(df)
                ELSE Returned(filter_dataframe(df,
                    MaskOf(col, LAMBDA c : IsNum(c) /\ FLt(c.n, f1))))
           [] operator = "between" /\ has1 /\ has2 ->
                IF HasText(col) THEN Unfiltered(df)
                ELSE Returned(filter_dataframe(df,
                    MaskOf(col, LAMBDA c : IsNum(c) /\ FGe(c.n, f1) /\ FLe(c.n, f2))))
           [] operator = "divisible_by" /\ has1 /\ (f1.inf \/ f1.n # 0) ->
                IF HasText(col) THEN Unfiltered(df)
                ELSE Returned(filter_dataframe(df,
                    MaskOf(col, LAMBDA c : IsNum(c) /\ FDivides(c.n, f1))))
           [] operator = "every_nth" /\ has1 /\ positive ->
                IF f1.inf THEN Escaped(df)             \* OverflowError, not caught here
                ELSE Returned(ILoc(df, EveryNthPositions(NRows(df), f1.n, 0)))
           [] operator = "first_n" /\ has1 /\ positive ->
                IF f1.inf THEN Escaped(df) ELSE Returned(HeadRows(df, f1.n))
           [] operator = "last_n" /\ has1 /\ positive ->
                IF f1.inf THEN Escaped(df) ELSE Returned(TailRows(df, f1.n))
           [] OTHER -> Unfiltered(df)

\* ChartBase._apply_year_filter (the comparison operators)
\* Series.unique(): the distinct cells in order of first appearance
RECURSIVE Unique(_, _)
Unique(col, i) ==
    IF i = 0 THEN <<>>
    ELSE LET before == Unique(col, i - 1)
         IN IF \E j \in 1..(i - 1) : col[j] = col[i] THEN before
            ELSE Append(before, col[i])

\* the order of the texts of the model under Python's str comparison
TextRank(x) ==
    CASE x = "" -> 0 [] x = " x" -> 1 [] x = "0" -> 2 [] x = "1" -> 3
      [] x = "2" -> 4 [] x = "3" -> 5 [] x = "X" -> 6 [] x = "Y" -> 7
      [] x = "Y " -> 8 [] x = "abc" -> 9 [] x = "inf" -> 10 [] x = "x" -> 11
      [] x = "y" -> 12 [] OTHER -> 13

\* Python's x < y on two cells: False whenever one of them is NaN
PyLess(x, y) ==
    IF IsStr(x) /\ IsStr(y) THEN TextRank(x.s) < TextRank(y.s)
    ELSE IF IsNull(x) \/ IsNull(y) THEN FALSE
    ELSE Less(x, y)

\* x < y raises TypeError: a text against a float
PyLessRaises(x, y) == IsStr(x) # IsStr(y)

\* list.sort, the start: the length of the run the list begins with, which
\* is turned round when it descends
RECURSIVE RunLength(_, _, _)
RunLength(list, n, descending) ==
    IF n = Len(list) THEN n
    ELSE IF PyLess(list[n + 1], list[n]) = descending
         THEN RunLength(list, n + 1, descending)
    ELSE n

InsertAt(list, at, x) ==
    [j \in 1..(Len(list) + 1) |->
        IF j < at THEN list[j] ELSE IF j = at THEN x ELSE list[j - 1]]

\* the place binary insertion gives pivot in list[l + 1 .. r]
RECURSIVE BinarySearch(_, _, _, _)
BinarySearch(list, pivot, l, r) ==
    IF l >= r THEN l
    ELSE LET p == l + ((r - l) \div 2)
         IN IF PyLess(pivot, list[p + 1])
            THEN BinarySearch(list, pivot, l, p)
            ELSE BinarySearch(list, pivot, p + 1, r)

RECURSIVE BinarySort(_, _)
BinarySort(done, rest) ==
    IF rest = <<>> THEN done
    ELSE BinarySort(InsertAt(done, BinarySearch(done, Head(rest), 0, Len(done)) + 1,
                             Head(rest)),
                    Tail(rest))

\* sorted(list) as CPython sorts a short list: the first run, then binary
\* insertion of the other elements; a NaN compares False to everything
PySorted(list) ==
    IF Len(list) < 2 THEN list
    ELSE LET descending == PyLess(list[2], list[1])
             n == RunLength(list, 2, descending)
             run == IF descending THEN [j \in 1..n |-> list[n - j + 1]]
                    ELSE SubSeq(list, 1, n)
         IN BinarySort(run, SubSeq(list, n + 1, Len(list)))

\* list[:n] and list[-n:] (list[-0:] is the whole list)
SliceFirst(list, n) ==
    IF n >= 0 THEN SubSeq(list, 1, Min2(n, Len(list)))
    ELSE IF Len(list) + n > 0 THEN SubSeq(list, 1, Len(list) + n)
    ELSE <<>>
SliceLast(list, n) ==
    IF n > 0 THEN SubSeq(list, Len(list) - Min2(n, Len(list)) + 1, Len(list))
    ELSE IF 0 - n < Len(list) THEN SubSeq(list, 1 - n, Len(list))
    ELSE <<>>

apply_year_filter(df, column, operator, value, value2) ==
    IF (~IsNull(value) /\ ~IntConverts(value))
         \/ (~IsNull(value2) /\ ~IntConverts(value2))
    THEN Unfiltered(df)                     \* ValueError, caught
    ELSE
      LET has1 == ~IsNull(value)
          has2 == ~IsNull(value2)
          y1 == IF has1 THEN Int_(value) ELSE 0
          y2 == IF has2 THEN Int_(value2) ELSE 0
          col == df.cells[column]
      IN CASE operator = "equals" /\ has1 ->
                Returned(filter_dataframe(df,
                    MaskOf(col, LAMBDA c : IsNum(c) /\ c.n = y1)))
           [] operator = "greater_than" /\ has1 ->
                IF HasText(col) THEN Unfiltered(df)
                ELSE Returned(filter_dataframe(df,
                    MaskOf(col, LAMBDA c : IsNum(c) /\ c.n > y1)))
           [] operator = "less_than" /\ has1 ->
                IF HasText(col) THEN Unfiltered(df)
                ELSE Returned(filter_dataframe(df,
                    MaskOf(col, LAMBDA c : IsNum(c) /\ c.n < y1)))
           [] operator = "between" /\ has1 /\ has2 ->
                IF HasText(col) THEN Unfiltered(df)
                ELSE Returned(filter_dataframe(df,
                    MaskOf(col, LAMBDA c : IsNum(c) /\ c.n >= y1 /\ c.n <= y2)))
           [] operator \in {"first_n", "last_n"} /\ has1 ->
                LET years == Unique(col, Len(col))
                IN IF \E i, j \in DOMAIN years : PyLessRaises(years[i], years[j])
                   THEN Unfiltered(df)              \* TypeError, caught
                   ELSE IF years = <<>> THEN Unfiltered(df)
                   ELSE LET sorted_years == PySorted(years)
                            kept == IF operator = "first_n"
                                    THEN SliceFirst(sorted_years, y1)
                                    ELSE SliceLast(sorted_years, y1)
                        IN Returned(filter_dataframe(df,
                               MaskOf(col, LAMBDA c : c \in Range(kept))))
           [] OTHER -> Unfiltered(df)

\* Series.astype(str) of one cell of a column
IntText(n) == CASE n = 0 -> "0" [] n = 1 -> "1" [] n = 2 -> "2" [] n = 3 -> "3"
                [] OTHER -> "n"
FloatText(n) == CASE n = 0 -> "0.0" [] n = 1 -> "1.0" [] n = 2 -> "2.0"
                  [] n = 3 -> "3.0" [] OTHER -> "n.0"
AsTypeStr(col, c) ==
    IF IsStr(c) THEN c.s
    ELSE IF IsNull(c) THEN "nan"
    ELSE IF ~HasText(col) /\ \E i \in DOMAIN col : IsNull(col[i]) THEN FloatText(c.n)
    ELSE IntText(c.n)

\* ChartBase._apply_text_filter (operator equals)
apply_text_filter(df, column, operator, value) ==
    IF IsNull(value) \/ (IsStr(value) /\ value.s = "") \/ (IsNum(value) /\ value.n = 0)
    THEN Unfiltered(df)                     \* if not value: return data
    ELSE IF ~IsStr(value) THEN Unfiltered(df)\* value.lower() fails, caught
    ELSE
      LET col == df.cells[column]
      IN CASE operator = "equals" ->
                Returned(filter_dataframe(df,
                    MaskOf(col, LAMBDA c : Lower(AsTypeStr(col, c)) = Lower(value.s))))
           [] OTHER -> Unfiltered(df)

(***************************************************************************)
(* Objects.  A call works on references: heap maps each live reference to  *)
(* its table, DataFrame.copy() allocates a new one.                        *)
(***************************************************************************)
NewRef(heap) == Cardinality(DOMAIN heap)

\* a call ends: the heap it leaves, the reference it returns, whether it raised
Ends(heap, ref, exc) == [heap |-> heap, ref |-> ref, raised |-> exc]

\* no copy: the same object under the same reference
DfAlias(heap, ref) == [heap |-> heap, ref |-> ref]

\* DataFrame.copy(): a new object with the same rows
DfCopy(heap, ref) ==
    [heap |-> heap @@ (NewRef(heap) :> heap[ref]), ref |-> NewRef(heap)]

\* a new object holding df
Alloc(heap, df) == [heap |-> heap @@ (NewRef(heap) :> df), ref |-> NewRef(heap)]

(***************************************************************************)
(* ChartBase.apply_filters                                                 *)
(***************************************************************************)
KnownFilterTypes == {"text", "numeric", "year"}

\* apply_filters, lines 166-176: the type filter of one clause on temp_data
ApplyTypeFilter(temp_data, c) ==
    CASE c.type = "text" ->
            apply_text_filter(temp_data, c.column, c.operator, c.value)
      [] c.type = "numeric" ->
            apply_numeric_filter(temp_data, c.column, c.operator, c.value, c.value2)
      [] c.type = "year" ->
            apply_year_filter(temp_data, c.column, c.operator, c.value, c.value2)

\* the loop's state: filtered_data, filter_masks, and whether an exception
\* left the loop
LoopState(fd, masks, escaped) == [fd |-> fd, masks |-> masks, raised |-> escaped]

\* the rows the clauses so far have left
TempDataNarrowed(st) ==
    IF st.masks = <<>> THEN st.fd
    ELSE SelectRows(st.fd, st.masks[Len(st.masks)].mask)

\* temp_data = filtered_data.copy(): every clause starts from the whole table
TempData(st) == st.fd

\* a skipped clause counted as one that matches every row
SkippedAsMatchAll(st, c) ==
    LoopState(st.fd,
              Append(st.masks,
                     [mask |-> [i \in 1..NRows(st.fd) |-> TRUE], logic |-> c.logic]),
              FALSE)

\* continue: the clause leaves no mask
Skipped(st, c) == st

\* apply_filters, lines 151-197: the loop body for clause c
ClauseStep(st, c) ==
    IF st.raised THEN st
    ELSE IF c.column = "" \/ ~HasColumn(st.fd, c.column) THEN Skipped(st, c)
    ELSE IF c.type \notin KnownFilterTypes THEN Skipped(st, c)
    ELSE
      LET temp_data == TempData(st)
          r == ApplyTypeFilter(temp_data, c)
      IN IF r.raised THEN LoopState(st.fd, st.masks, TRUE)
         ELSE IF NRows(r.df) > 0
         THEN IF ~IndexIsUnique(st.fd)
              THEN LET fd2 == ResetIndex(st.fd)
                       tf2 == ResetIndex(r.df)
                   IN LoopState(fd2,
                          Append(st.masks,
                                 [mask |-> IndexIsIn(fd2, tf2), logic |-> c.logic]),
                          FALSE)
              ELSE LoopState(st.fd,
                          Append(st.masks,
                                 [mask |-> IndexIsIn(st.fd, r.df), logic |-> c.logic]),
                          FALSE)
         ELSE LoopState(st.fd,
                  Append(st.masks,
                         [mask |-> [i \in 1..NRows(st.fd) |-> FALSE], logic |-> c.logic]),
                  FALSE)

\* the for loop over column_filters
RECURSIVE FilterLoop(_, _)
FilterLoop(st, column_filters) ==
    IF column_filters = <<>> THEN st
    ELSE CHOOSE out \in {FilterLoop(next, Tail(column_filters)) :
                            next \in {ClauseStep(st, Head(column_filters))}} : TRUE

\* the masks combined from the last on: A or (B and C)
RECURSIVE CombineMasksFromRight(_, _, _)
CombineMasksFromRight(final_mask, filter_masks, i) ==
    IF i > Len(filter_masks) THEN final_mask
    ELSE LET rest == CombineMasksFromRight(filter_masks[i].mask, filter_masks, i + 1)
         IN IF filter_masks[i].logic = "and"
            THEN [j \in DOMAIN final_mask |-> final_mask[j] /\ rest[j]]
            ELSE [j \in DOMAIN final_mask |-> final_mask[j] \/ rest[j]]

\* apply_filters, lines 199-210: the masks combined from the first on
RECURSIVE CombineMasks(_, _, _)
CombineMasks(final_mask, filter_masks, i) ==
    IF i > Len(filter_masks) THEN final_mask
    ELSE CombineMasks(
           IF filter_masks[i].logic = "and"
           THEN [j \in DOMAIN final_mask |-> final_mask[j] /\ filter_masks[i].mask[j]]
           ELSE [j \in DOMAIN final_mask |-> final_mask[j] \/ filter_masks[i].mask[j]],
           filter_masks, i + 1)

\* the seed taken as a mask of its own that every clause is combined with
FinalMaskSeeded(filter_masks) ==
    CombineMasks([j \in DOMAIN filter_masks[1].mask |-> TRUE], filter_masks, 1)

\* final_mask = filter_masks[0][0], then the rest combined into it
FinalMask(filter_masks) == CombineMasks(filter_masks[1].mask, filter_masks, 2)

\* apply_filters on the table at ref: the heap after the call, the reference
\* returned and whether the call raised
apply_filters(heap, ref, column_filters) ==
    LET c0 == DfCopy(heap, ref)                    \* filtered_data = data.copy()
        filtered_data == c0.heap[c0.ref]
    IN IF column_filters = <<>>
       THEN Ends(c0.heap, c0.ref, FALSE)
       ELSE
         LET st == FilterLoop(LoopState(filtered_data, <<>>, FALSE), column_filters)
             out == IF st.raised \/ st.masks = <<>>
                    THEN st.fd                      \* except Exception: logged
                    ELSE SelectRows(st.fd, FinalMask(st.masks))
             a == Alloc(c0.heap, out)
         IN Ends(a.heap, a.ref, FALSE)

(***************************************************************************)
(* DataTransformation                                                      *)
(***************************************************************************)
\* a pandas Series: the row labels and one cell per label
Series(index, vals) == [index |-> index, vals |-> vals]

\* the dtype pandas stores the cells under: a column holding a text is
\* object, one of bools only is bool and bools beside nulls are object, whole
\* numbers without a null are int64, other numbers float64
dtype(series) ==
    LET vals == series.vals
    IN IF HasText(vals) THEN "object"
       ELSE IF \E i \in DOMAIN vals : IsBool(vals[i])
            THEN IF \A i \in DOMAIN vals : IsBool(vals[i]) THEN "bool" ELSE "object"
       ELSE IF vals # <<>> /\ \A i \in DOMAIN vals : IsNum(vals[i]) /\ vals[i].d = 1
            THEN "int64"
       ELSE "float64"

\* pd.api.types.is_numeric_dtype: true of the number dtypes and of bool
is_numeric_dtype(series) == dtype(series) \in {"int64", "float64", "bool"}

\* hasattr(series, 'str'): the accessor exists on an object column with texts
has_str_accessor(series) == HasText(series.vals)

\* the cells that are not null, in row order
NotNull(vals) ==
    LET pos == Positions([i \in DOMAIN vals |-> ~IsNull(vals[i])], 1)
    IN [j \in 1..Len(pos) |-> vals[pos[j]]]

RECURSIVE SumTo(_, _)
SumTo(vals, i) == IF i = 0 THEN Num(0) ELSE Plus(SumTo(vals, i - 1), vals[i])

\* Series.min(), Series.max(), Series.mean() over the cells that are not
\* null; Null (NaN) when there is none
series_min(series) ==
    LET v == NotNull(series.vals)
    IN IF v = <<>> THEN Null
       ELSE CHOOSE x \in Range(v) : \A y \in Range(v) : ~Less(y, x)
series_max(series) ==
    LET v == NotNull(series.vals)
    IN IF v = <<>> THEN Null
       ELSE CHOOSE x \in Range(v) : \A y \in Range(v) : ~Less(x, y)
series_mean(series) ==
    LET v == NotNull(series.vals)
    IN IF v = <<>> THEN Null ELSE Over(SumTo(v, Len(v)), Num(Len(v)))

\* the square of Series.std() (ddof = 1); Null (NaN) below two values
series_var(series) ==
    LET v == NotNull(series.vals)
        m == series_mean(series)
        sq == [i \in DOMAIN v |-> Times(Minus(v[i], m), Minus(v[i], m))]
    IN IF Len(v) < 2 THEN Null ELSE Over(SumTo(sq, Len(sq)), Num(Len(v) - 1))

\* the cells that are not null, in ascending order
RECURSIVE SortCells(_)
SortCells(vals) ==
    IF vals = <<>> THEN <<>>
    ELSE LET at == CHOOSE i \in DOMAIN vals :
                       \A j \in DOMAIN vals : ~Less(vals[j], vals[i])
         IN <<vals[at]>> \o SortCells([j \in 1..(Len(vals) - 1) |->
                                         IF j < at THEN vals[j] ELSE vals[j + 1]])

\* the upper of the two middle values when the count is even
UpperMedian(series) ==
    LET v == SortCells(NotNull(series.vals))
    IN IF v = <<>> THEN Null
       ELSE Ratio(v[(Len(v) \div 2) + 1].n, v[(Len(v) \div 2) + 1].d)

\* Series.median(): the middle of the sorted values, or the mean of the two
\* middle ones
series_median(series) ==
    LET v == SortCells(NotNull(series.vals))
        h == Len(v) \div 2
    IN IF v = <<>> THEN Null
       ELSE IF Len(v) % 2 = 1 THEN Ratio(v[h + 1].n, v[h + 1].d)
       ELSE Over(Plus(v[h], v[h + 1]), Num(2))

\* Series.quantile(q), linear interpolation between the sorted values
series_quantile(series, q) ==
    LET v == SortCells(NotNull(series.vals))
        at == Times(Num(Len(v) - 1), q)
        below == at.n \div at.d
        part == Minus(at, Num(below))
    IN IF v = <<>> THEN Null
       ELSE IF part.n = 0 THEN Ratio(v[below + 1].n, v[below + 1].d)
       ELSE Plus(v[below + 1], Times(part, Minus(v[below + 2], v[below + 1])))

\* parameters.get(key, default)
Get(parameters, key, default) ==
    IF key \in DOMAIN parameters THEN parameters[key] ELSE default

NoParameters == [key \in {} |-> Null]

\* DataTransformation.__init__: the transformation function is built here, so
\* it holds the parameter values of this moment (captured)
DataTransformation(column, operation, parameters) ==
    [column |-> column, operation |-> operation,
     parameters |-> parameters, captured |-> parameters]

\* what the transformation function hands back: a series, or an exception
Transformed(series) == [err |-> FALSE, series |-> series]
Raises(series) == [err |-> TRUE, series |-> series]

\* Series.dropna()
dropna(series) ==
    LET pos == Positions([i \in DOMAIN series.vals |-> ~IsNull(series.vals[i])], 1)
    IN Series([j \in 1..Len(pos) |-> series.index[pos[j]]],
              [j \in 1..Len(pos) |-> series.vals[pos[j]]])

\* Series.fillna(value)
fillna(series, value) ==
    Series(series.index,
           [i \in DOMAIN series.vals |->
               IF IsNull(series.vals[i]) THEN value ELSE series.vals[i]])

\* pd.to_numeric(series, errors=errors)
ParsesAsNumber(c) == ~IsStr(c) \/ c.s \in NumericText
to_numeric(series, errors) ==
    LET all_parse == \A i \in DOMAIN series.vals : ParsesAsNumber(series.vals[i])
        parsed == Series(series.index,
                     [i \in DOMAIN series.vals |->
                         LET c == series.vals[i]
                         IN IF ~IsStr(c) THEN c
                            ELSE IF c.s \in NumericText THEN Num(TextValue(c.s))
                            ELSE Null])
    IN CASE errors = Str("coerce") -> Transformed(parsed)
         [] errors = Str("raise") ->
              IF all_parse THEN Transformed(parsed) ELSE Raises(series)
         [] errors = Str("ignore") ->
              IF all_parse THEN Transformed(parsed) ELSE Transformed(series)
         [] OTHER -> Raises(series)          \* ValueError: invalid error value

\* series.str.upper(): the cells that are no text become NaN
str_upper(series) ==
    Series(series.index,
           [i \in DOMAIN series.vals |->
               IF IsStr(series.vals[i]) THEN Str(Upper(series.vals[i].s)) ELSE Null])

\* the values under the lower bound are lifted, the others left alone
ClipBelowOnly(series, lower, upper) ==
    Series(series.index,
           [i \in DOMAIN series.vals |->
               LET c == series.vals[i]
               IN IF IsNum(c) /\ ~IsNull(lower) /\ Less(c, lower)
                  THEN Ratio(lower.n, lower.d) ELSE c])

\* Series.clip(lower, upper) with numeric or absent bounds; pandas orders the
\* two bounds when both are given
clip(series, lower, upper) ==
    LET both == ~IsNull(lower) /\ ~IsNull(upper)
        lo == IF both /\ Less(upper, lower) THEN upper ELSE lower
        hi == IF both /\ Less(upper, lower) THEN lower ELSE upper
    IN Series(series.index,
           [i \in DOMAIN series.vals |->
               LET c == series.vals[i]
               IN IF ~(IsNum(c) \/ IsBool(c)) THEN c
                  ELSE IF ~IsNull(lo) /\ Less(c, lo) THEN Ratio(lo.n, lo.d)
                  ELSE IF ~IsNull(hi) /\ Less(hi, c) THEN Ratio(hi.n, hi.d)
                  ELSE c])

\* series.str.lower() and series.str.strip(): the cells that are no text
\* become NaN
str_lower(series) ==
    Series(series.index,
           [i \in DOMAIN series.vals |->
               IF IsStr(series.vals[i]) THEN Str(Lower(series.vals[i].s)) ELSE Null])
str_strip(series) ==
    Series(series.index,
           [i \in DOMAIN series.vals |->
               IF IsStr(series.vals[i]) THEN Str(Strip(series.vals[i].s)) ELSE Null])

\* series.str.replace(pattern, replacement, regex=True)
str_replace(series, pattern, replacement) ==
    Series(series.index,
           [i \in DOMAIN series.vals |->
               IF IsStr(series.vals[i])
               THEN Str(ReSub(pattern.s, replacement.s, series.vals[i].s))
               ELSE Null])

RECURSIVE Pow10(_)
Pow10(e) == IF e = 0 THEN 1 ELSE 10 * Pow10(e - 1)

\* the whole number nearest to num/den (den > 0), the even one of two
RoundHalfEven(num, den) ==
    LET q == num \div den
        r == num - q * den
    IN IF 2 * r < den THEN q
       ELSE IF 2 * r > den THEN q + 1
       ELSE IF q % 2 = 0 THEN q ELSE q + 1

\* Series.round(decimals); a bool column is handed back as it is
series_round(series, decimals) ==
    IF dtype(series) = "bool" THEN series
    ELSE Series(series.index,
           [i \in DOMAIN series.vals |->
               LET c == series.vals[i]
               IN IF ~IsNum(c) THEN c
                  ELSE IF decimals >= 0
                       THEN Ratio(RoundHalfEven(c.n * Pow10(decimals), c.d),
                                  Pow10(decimals))
                  ELSE Num(RoundHalfEven(c.n, c.d * Pow10(0 - decimals))
                             * Pow10(0 - decimals))])

\* (series - series.min()) / (series.max() - series.min()); 0/0 is NaN
min_max_normalize(series) ==
    LET lo == series_min(series)
        hi == series_max(series)
    IN Series(series.index,
           [i \in DOMAIN series.vals |->
               LET c == series.vals[i]
               IN IF IsNull(c) \/ IsNull(lo) \/ ~Less(lo, hi) THEN Null
                  ELSE Over(Minus(c, lo), Minus(hi, lo))])

IsSquare(i) == \E r \in 0..i : r * r = i
SquareRoot(i) == CHOOSE r \in 0..i : r * r = i

\* the float of sign sgn whose square is the number cell sq
SignedRoot(sgn, sq) ==
    IF IsSquare(sq.n) /\ IsSquare(sq.d)
    THEN Ratio(sgn * SquareRoot(sq.n), SquareRoot(sq.d))
    ELSE Root(sgn * sq.n, sq.d)

\* (series - series.mean()) / series.std(); NaN when std is NaN or 0/0
z_score(series) ==
    LET m == series_mean(series)
        var == series_var(series)
    IN Series(series.index,
           [i \in DOMAIN series.vals |->
               LET c == series.vals[i]
               IN IF IsNull(c) \/ IsNull(var) \/ var.n = 0 THEN Null
                  ELSE LET dx == Minus(c, m)
                       IN SignedRoot(IF dx.n < 0 THEN 0 - 1 ELSE 1,
                                     Over(Times(dx, dx), var))])

\* series.mask(abs(series - mean) > threshold * std, None)
mask_outliers(series, threshold) ==
    LET m == series_mean(series)
        var == series_var(series)
    IN Series(series.index,
           [i \in DOMAIN series.vals |->
               LET c == series.vals[i]
               IN IF IsNull(c) \/ IsNull(var) THEN c
                  ELSE LET dx == Minus(c, m)
                       IN IF \/ threshold.n < 0
                             \/ Less(Times(Times(threshold, threshold), var),
                                     Times(dx, dx))
                          THEN Null ELSE c])

\* astype(int64) of a float: the fraction is cut off
Truncate(c) ==
    IF c.n >= 0 THEN Num(c.n \div c.d) ELSE Num(0 - ((0 - c.n) \div c.d))

\* series.fillna(series.iloc[0] if len(series) > 0 else ""): the fallback of
\* the replace operations; filling with NaN changes nothing
fill_with_first(series) ==
    IF series.vals = <<>> \/ IsNull(series.vals[1]) THEN series
    ELSE fillna(series, series.vals[1])

\* winsorize: clip to the two quantiles and keep the column's dtype
winsorize(series, lower, upper) ==
    IF dtype(series) = "bool" \/ ~IsNum(lower) \/ ~IsNum(upper)
    THEN Raises(series)                   \* TypeError inside quantile
    ELSE IF Less(lower, Num(0)) \/ Less(Num(1), lower)
            \/ Less(upper, Num(0)) \/ Less(Num(1), upper)
    THEN Raises(series)                   \* ValueError: percentiles in [0, 1]
    ELSE LET clipped == clip(series, series_quantile(series, lower),
                             series_quantile(series, upper))
         IN IF dtype(series) = "int64"
            THEN Transformed(Series(series.index,
                     [i \in DOMAIN clipped.vals |-> Truncate(clipped.vals[i])]))
            ELSE Transformed(clipped)

\* DataTransformation._get_transformation_function, applied to a series
transformation_function(t, series) ==
    CASE t.operation = "REMOVE_MISSING" -> Transformed(dropna(series))
      [] t.operation = "REPLACE_MEAN" ->
            IF is_numeric_dtype(series)
            THEN LET mean == series_mean(series)
                 IN IF IsNull(mean) THEN Transformed(series)
                    ELSE Transformed(fillna(series, mean))
            ELSE Transformed(fill_with_first(series))
      [] t.operation = "REPLACE_MEDIAN" ->
            IF is_numeric_dtype(series)
            THEN LET median == series_median(series)
                 IN IF IsNull(median) THEN Transformed(series)
                    ELSE Transformed(fillna(series, median))
            ELSE Transformed(fill_with_first(series))
      [] t.operation = "REPLACE_CUSTOM" ->
            LET value == Get(t.captured, "value", Str(""))
            IN IF IsNull(value) THEN Raises(series)   \* fillna(None): ValueError
               ELSE Transformed(fillna(series, value))
      [] t.operation = "CONVERT_TO_NUMERIC" ->
            to_numeric(series, Get(t.captured, "errors", Str("coerce")))
      [] t.operation = "TEXT_LOWERCASE" ->
            IF has_str_accessor(series) THEN Transformed(str_lower(series))
            ELSE Transformed(series)
      [] t.operation = "TEXT_UPPERCASE" ->
            IF has_str_accessor(series) THEN Transformed(str_upper(series))
            ELSE Transformed(series)
      [] t.operation = "TEXT_TRIM" ->
            IF has_str_accessor(series) THEN Transformed(str_strip(series))
            ELSE Transformed(series)
      [] t.operation = "TEXT_REPLACE" ->
            LET pattern == Get(t.captured, "pattern", Str(""))
                replacement == Get(t.captured, "replacement", Str(""))
            IN IF ~has_str_accessor(series) THEN Transformed(series)
               ELSE IF ~IsStr(pattern) \/ ~IsStr(replacement) THEN Raises(series)
               ELSE Transformed(str_replace(series, pattern, replacement))
      [] t.operation = "NUMERIC_ROUND" ->
            LET decimals == Get(t.captured, "decimals", Num(0))
            IN IF ~is_numeric_dtype(series) THEN Transformed(series)
               ELSE IF ~IsNum(decimals) \/ decimals.d # 1 THEN Raises(series)
               ELSE Transformed(series_round(series, decimals.n))
      [] t.operation = "NUMERIC_NORMALIZE" ->
            IF ~is_numeric_dtype(series) THEN Transformed(series)
            ELSE IF dtype(series) = "bool"
                 THEN Raises(series)      \* TypeError: numpy boolean subtract
            ELSE Transformed(min_max_normalize(series))
      [] t.operation = "NUMERIC_STANDARDIZE" ->
            IF is_numeric_dtype(series) THEN Transformed(z_score(series))
            ELSE Transformed(series)
      [] t.operation = "NUMERIC_LIMIT_RANGE" ->
            LET min_val == Get(t.captured, "min", Null)
                max_val == Get(t.captured, "max", Null)
            IN IF is_numeric_dtype(series)
               THEN IF IsStr(min_val) \/ IsStr(max_val)
                    THEN Raises(series)               \* TypeError in clip
                    ELSE Transformed(clip(series, min_val, max_val))
               ELSE Transformed(series)
      [] t.operation = "OUTLIER_REMOVE" ->
            LET threshold == Get(t.captured, "threshold", Num(3))
            IN IF ~is_numeric_dtype(series) THEN Transformed(series)
               ELSE IF ~IsNum(threshold) THEN Raises(series)
               ELSE Transformed(mask_outliers(series, threshold))
      [] t.operation = "OUTLIER_WINSORIZE" ->
            IF is_numeric_dtype(series)
            THEN winsorize(series, Get(t.captured, "lower", Ratio(5, 100)),
                           Get(t.captured, "upper", Ratio(95, 100)))
            ELSE Transformed(series)
      [] OTHER -> Transformed(series)

\* result_df[column] = series: the series is aligned with the table's row
\* labels; a label the series lacks gives NaN, duplicate labels cannot be
\* reindexed
IsUniqueSeq(s) == \A i, j \in DOMAIN s : s[i] = s[j] => i = j
SetColumnFails(df, series) ==
    series.index # df.index /\ ~IsUniqueSeq(series.index)
\* the rows without a value in the series are dropped from the table
SetColumnDroppingRows(df, column, series) ==
    LET kept == SelectRows(df, [i \in 1..NRows(df) |->
                    \E j \in DOMAIN series.index : series.index[j] = df.index[i]])
    IN [kept EXCEPT !.cells[column] = series.vals]

SetColumn(df, column, series) ==
    [df EXCEPT !.cells[column] =
        IF series.index = df.index THEN series.vals
        ELSE [i \in 1..NRows(df) |->
                 IF \E j \in DOMAIN series.index : series.index[j] = df.index[i]
                 THEN series.vals[CHOOSE j \in DOMAIN series.index :
                                      series.index[j] = df.index[i]]
                 ELSE Null]]

\* the exception leaves apply
NotCaught(c0) == Ends(c0.heap, c0.ref, TRUE)

\* except Exception: the error is printed and result_df returned as copied
Caught(c0) == Ends(c0.heap, c0.ref, FALSE)

\* the table written to although it lacks the column: the column is added
ColumnAdded(c0, t) ==
    LET df == c0.heap[c0.ref]
    IN Ends([c0.heap EXCEPT ![c0.ref] =
                [index |-> df.index,
                 columns |-> Append(df.columns, t.column),
                 cells |-> df.cells @@
                           (t.column :> [i \in 1..NRows(df) |-> Null])]],
            c0.ref, FALSE)

\* self.column not in result_df.columns: result_df is returned as copied
ColumnAbsent(c0, t) == Ends(c0.heap, c0.ref, FALSE)

\* DataTransformation.apply on the table at ref
apply(t, heap, ref) ==
    LET c0 == DfCopy(heap, ref)                      \* result_df = df.copy()
        result_df == c0.heap[c0.ref]
    IN IF HasColumn(result_df, t.column)
       THEN LET series == Series(result_df.index, result_df.cells[t.column])
                r == transformation_function(t, series)
            IN IF r.err \/ SetColumnFails(result_df, r.series)
               THEN Caught(c0)
               ELSE Ends([c0.heap EXCEPT ![c0.ref] =
                             SetColumn(result_df, t.column, r.series)],
                         c0.ref, FALSE)
       ELSE ColumnAbsent(c0, t)

(***************************************************************************)
(* DataFrameTransformer                                                    *)
(***************************************************************************)
\* the steps taken from the last to the first
RECURSIVE ApplyLoopReversed(_, _, _)
ApplyLoopReversed(steps, i, cur) ==
    IF i > Len(steps) \/ cur.raised THEN cur
    ELSE CHOOSE out \in {ApplyLoopReversed(steps, i + 1, next) :
                            next \in {apply(steps[Len(steps) - i + 1],
                                             cur.heap, cur.ref)}} : TRUE

\* the for loop of apply_all from step i on
RECURSIVE ApplyLoop(_, _, _)
ApplyLoop(steps, i, cur) ==
    IF i > Len(steps) \/ cur.raised THEN cur
    ELSE CHOOSE out \in {ApplyLoop(steps, i + 1, next) :
                            next \in {apply(steps[i], cur.heap, cur.ref)}} : TRUE

\* the loop started from the rows without a missing value: df.dropna()
ApplyAllDroppingNullRows(steps, heap, ref) ==
    LET df == heap[ref]
        kept == SelectRows(df, [i \in 1..NRows(df) |->
                    \A c \in DOMAIN df.cells : ~IsNull(df.cells[c][i])])
        a == Alloc(heap, kept)
    IN ApplyLoop(steps, 1, Ends(a.heap, a.ref, FALSE))

\* DataFrameTransformer.apply_all
apply_all(steps, heap, ref) ==
    LET c0 == DfCopy(heap, ref)                      \* result_df = df.copy()
    IN ApplyLoop(steps, 1, Ends(c0.heap, c0.ref, FALSE))

(***************************************************************************)
(* The inputs.                                                             *)
(***************************************************************************)
\* column a holds numbers and nulls; column b holds text, by row position
ACells == {Num(1), Num(MaxVal), Null}
BCell(i) == CASE i % 3 = 1 -> Str("x") [] i % 3 = 2 -> Str("1") [] OTHER -> Str("Y")

\* a table as the CSV importer builds it: rows labelled 0..n-1
Table(acol) ==
    [index |-> RangeIndex(Len(acol)),
     columns |-> <<"a", "b">>,
     cells |-> [c \in {"a", "b"} |->
                  IF c = "a" THEN acol ELSE [i \in 1..Len(acol) |-> BCell(i)]]]

Tables == {Table(acol) : acol \in UNION {[1..n -> ACells] : n \in 0..MaxRows}}

NoTable == [index |-> <<>>, columns |-> <<>>, cells |-> <<>>]

\* no column has been profiled
NoProfile == [name |-> "", data_type |-> "", original_type |-> "", stats |-> <<>>]

\* no Dataset has been constructed; supplied is a history field: whether the
\* constructor was given a list of columns
NoDataset ==
    [data |-> NoTable, metadata |-> <<>>, created_at |-> 0 - 1, modified_at |-> 0 - 1,
     columns |-> <<>>, supplied |-> FALSE]

\* no Project has been constructed
NoProject ==
    [name |-> "", modified |-> 0 - 1, data_sources |-> <<>>,
     _last_saved_state |-> [none |-> TRUE, name |-> "", data_sources |-> <<>>,
                            alias |-> FALSE],
     _collections_modified |-> FALSE, _observers |-> {}]

\* the dialog without a filter row
NoDialog == [column_filter_widgets |-> <<>>, filter |-> <<>>]

NoObjects ==
    /\ dataset = NoDataset
    /\ clock = 0
    /\ project = NoProject
    /\ received = <<>>
    /\ dialog = NoDialog

Logics == {"and", "or"}

\* clauses that evaluate: comparisons and positional operators
EvalClauses ==
    {Clause("a", "numeric", "equals", Str("1"), Null, l) : l \in Logics}
    \cup {Clause("a", "numeric", "greater_than", Str("1"), Null, l) : l \in Logics}
    \cup {Clause("a", "numeric", "every_nth", Str("2"), Null, "and"),
          Clause("a", "numeric", "last_n", Num(1), Null, "or"),
          Clause("b", "text", "equals", Str("X"), Null, "or"),
          Clause("a", "year", "between", Str("1"), Str("1"), "and")}

\* clauses that cannot be evaluated, among two that can
SkipClauses ==
    {Clause("a", "numeric", "equals", Str("1"), Null, "and"),
     Clause("a", "numeric", "greater_than", Str("1"), Null, "or"),
     Clause("a", "numeric", "equals", Str("abc"), Null, "or"),
     Clause("a", "year", "less_than", Null, Null, "or"),
     Clause("b", "text", "equals", Str(""), Null, "and"),
     Clause("a", "bogus", "equals", Str("1"), Null, "or"),
     Clause("a", "numeric", "first_n", Str("inf"), Null, "and")}
    \cup {Clause("zz", "numeric", "equals", Str("1"), Null, l) : l \in Logics}

\* the steps a pipeline is built from
Steps ==
    {DataTransformation("a", "REPLACE_CUSTOM", "value" :> Num(MaxVal + 1)),
     DataTransformation("a", "NUMERIC_LIMIT_RANGE", ("min" :> Num(0) @@ "max" :> Num(1))),
     DataTransformation("a", "NUMERIC_LIMIT_RANGE",
                        ("min" :> Str("invalid") @@ "max" :> Num(1))),
     DataTransformation("a", "REMOVE_MISSING", NoParameters),
     DataTransformation("b", "CONVERT_TO_NUMERIC", NoParameters),
     DataTransformation("b", "CONVERT_TO_NUMERIC", "errors" :> Str("raise")),
     DataTransformation("b", "TEXT_UPPERCASE", NoParameters),
     DataTransformation("zz", "REPLACE_CUSTOM", "value" :> Num(MaxVal + 1)),
     DataTransformation("zz", "CONVERT_TO_NUMERIC", "errors" :> Str("raise")),
     DataTransformation("zz", "TEXT_UPPERCASE", NoParameters)}

(***************************************************************************)
(* The state machine.                                                      *)
(***************************************************************************)
Init ==
    /\ data \in Tables
    /\ filters = <<>>
    /\ transformations = <<>>
    /\ result = NoTable
    /\ op = "init"
    /\ applied = 0
    /\ raised = FALSE
    /\ reference = <<>>
    /\ profile = NoProfile
    /\ NoObjects

\* the dialog appends one clause to the filter configuration
AddFilter(c) ==
    /\ Len(filters) < MaxClauses
    /\ filters' = Append(filters, c)
    /\ result' = NoTable
    /\ op' = "add_filter"
    /\ applied' = 0
    /\ raised' = FALSE
    /\ UNCHANGED <<data, transformations, reference, profile, objects>>

\* ChartBase.apply_filters(data)
ApplyFilters ==
    \E out \in {apply_filters(0 :> data, 0, filters)} :
       /\ data' = out.heap[0]
       /\ result' = out.heap[out.ref]
       /\ raised' = out.raised
       /\ op' = "apply_filters"
       /\ applied' = 0
       /\ UNCHANGED <<filters, transformations, reference, profile, objects>>

\* DataFrameTransformer.add_transformation
AddTransformation(t) ==
    /\ Len(transformations) < MaxSteps
    /\ transformations' = Append(transformations, t)
    /\ reference' = reference \o <<t>>
    /\ result' = NoTable
    /\ op' = "add_transformation"
    /\ applied' = 0
    /\ raised' = FALSE
    /\ UNCHANGED <<data, filters, profile, objects>>

\* list.pop(index) for an index in range
Pop(list, index) ==
    [j \in 1..(Len(list) - 1) |-> IF j <= index THEN list[j] ELSE list[j + 1]]

\* list.pop(index) as Python does it: a negative index counts from the end
PopFromEitherEnd(list, index) ==
    IF 0 <= index /\ index < Len(list) THEN Pop(list, index)
    ELSE IF index < 0 /\ 0 - index <= Len(list) THEN Pop(list, Len(list) + index)
    ELSE list

\* if 0 <= index < len(self.transformations): self.transformations.pop(index)
PopInRange(list, index) ==
    IF 0 <= index /\ index < Len(list) THEN Pop(list, index) ELSE list

\* the sequence without its element at the 0-based place index, unchanged
\* when there is no such place
DeleteAt(list, index) ==
    IF index \in 0..(Len(list) - 1)
    THEN SubSeq(list, 1, index) \o SubSeq(list, index + 2, Len(list))
    ELSE list

\* DataFrameTransformer.remove_transformation (index counted from 0)
RemoveTransformation(index) ==
    /\ transformations' = PopInRange(transformations, index)
    /\ reference' = DeleteAt(reference, index)
    /\ result' = NoTable
    /\ op' = "remove_transformation"
    /\ applied' = 0
    /\ raised' = FALSE
    /\ UNCHANGED <<data, filters, profile, objects>>

\* DataFrameTransformer.clear_transformations
ClearTransformations ==
    /\ transformations' = <<>>
    /\ reference' = <<>>
    /\ result' = NoTable
    /\ op' = "clear_transformations"
    /\ applied' = 0
    /\ raised' = FALSE
    /\ UNCHANGED <<data, filters, profile, objects>>

\* DataFrameTransformer.apply_all(data)
ApplyAll ==
    \E out \in {apply_all(transformations, 0 :> data, 0)} :
       /\ data' = out.heap[0]
       /\ result' = out.heap[out.ref]
       /\ raised' = out.raised
       /\ op' = "apply_all"
       /\ applied' = 0
       /\ UNCHANGED <<filters, transformations, reference, profile, objects>>

\* transformations[i].apply(data): DataTransformation.apply of one held step
Apply(i) ==
    /\ i \in 1..Len(transformations)
    /\ \E out \in {apply(transformations[i], 0 :> data, 0)} :
          /\ data' = out.heap[0]
          /\ result' = out.heap[out.ref]
          /\ raised' = out.raised
    /\ op' = "apply"
    /\ applied' = i
    /\ UNCHANGED <<filters, transformations, reference, profile, objects>>

\* the filter engine on clauses that evaluate
NextFilter ==
    \/ \E c \in EvalClauses : AddFilter(c)
    \/ ApplyFilters

\* the filter engine on clauses that cannot be evaluated
NextSkip ==
    \/ \E c \in SkipClauses : AddFilter(c)
    \/ ApplyFilters

\* the transformation pipeline
NextPipeline ==
    \/ \E t \in Steps : AddTransformation(t)
    \/ \E index \in -1..MaxSteps : RemoveTransformation(index)
    \/ ClearTransformations
    \/ ApplyAll
    \/ \E i \in 1..MaxSteps : Apply(i)

\* a session works on the filter configuration or on the pipeline
NextEngine ==
    \/ transformations = <<>> /\ NextFilter
    \/ filters = <<>> /\ NextPipeline

Next == NextFilter \/ NextSkip \/ NextPipeline

Spec == Init /\ [][Next]_vars
SpecFilter == Init /\ [][NextFilter]_vars
SpecSkip == Init /\ [][NextSkip]_vars
SpecPipeline == Init /\ [][NextPipeline]_vars
SpecEngine == Init /\ [][NextEngine]_vars

(***************************************************************************)
(* What a clause means, row by row, stated apart from the engine.          *)
(***************************************************************************)
OperandNumber(v) == IF IsNum(v) THEN v.n ELSE TextValue(v.s)

IsNumberOperand(v) == IsNum(v) \/ (IsStr(v) /\ v.s \in NumericText)

PositionalOperators == {"every_nth", "first_n", "last_n"}
ComparisonOperators == {"equals", "greater_than", "less_than", "between"}

\* the clause can be evaluated on the table: its column exists, its type is
\* known, its operands are present and convert, and its operator applies
ClauseEvaluates(df, c) ==
    /\ HasColumn(df, c.column)
    /\ \/ /\ c.type = "numeric"
          /\ IsNumberOperand(c.value)
          /\ \/ c.operator \in {"equals", "greater_than", "less_than"}
             \/ c.operator = "between" /\ IsNumberOperand(c.value2)
             \/ c.operator = "divisible_by" /\ OperandNumber(c.value) # 0
             \/ c.operator \in PositionalOperators /\ OperandNumber(c.value) > 0
          /\ ~HasText(df.cells[c.column])
       \/ /\ c.type = "year"
          /\ IsNumberOperand(c.value)
          /\ \/ c.operator \in {"equals", "greater_than", "less_than"}
             \/ c.operator = "between" /\ IsNumberOperand(c.value2)
          /\ ~HasText(df.cells[c.column])
       \/ /\ c.type = "text"
          /\ c.operator = "equals"
          /\ IsStr(c.value) /\ c.value.s # ""
          /\ \A i \in 1..NRows(df) : IsStr(df.cells[c.column][i])

\* row i (counted from 1) satisfies the clause
RowMatches(df, i, c) ==
    LET cell == df.cells[c.column][i]
        v == OperandNumber(c.value)
    IN CASE c.type = "text" -> Lower(cell.s) = Lower(c.value.s)
         [] c.type # "text" /\ c.operator = "equals" -> IsNum(cell) /\ cell.n = v
         [] c.type # "text" /\ c.operator = "greater_than" -> IsNum(cell) /\ cell.n > v
         [] c.type # "text" /\ c.operator = "less_than" -> IsNum(cell) /\ cell.n < v
         [] c.type # "text" /\ c.operator = "between" ->
              IsNum(cell) /\ v <= cell.n /\ cell.n <= OperandNumber(c.value2)
         [] c.type # "text" /\ c.operator = "divisible_by" ->
              IsNum(cell) /\ cell.n % v = 0
         [] c.type # "text" /\ c.operator = "every_nth" -> (i - 1) % v = 0
         [] c.type # "text" /\ c.operator = "first_n" -> i <= v
         [] c.type # "text" /\ c.operator = "last_n" -> i > NRows(df) - v

MatchingRows(df, c) == {i \in 1..NRows(df) : RowMatches(df, i, c)}

\* acc_1 = mask(c_1), acc_k = acc_(k-1) AND/OR mask(c_k)
RECURSIVE Accumulated(_, _, _)
Accumulated(df, cs, k) ==
    IF k = 1 THEN MatchingRows(df, cs[1])
    ELSE IF cs[k].logic = "and"
         THEN Accumulated(df, cs, k - 1) \cap MatchingRows(df, cs[k])
         ELSE Accumulated(df, cs, k - 1) \cup MatchingRows(df, cs[k])

\* the rows of df at the positions in S, in row order
RowsAt(df, S) == SelectRows(df, [i \in 1..NRows(df) |-> i \in S])

AllEvaluate(df, cs) == \A k \in 1..Len(cs) : ClauseEvaluates(df, cs[k])

(***************************************************************************)
(* C1: when every clause evaluates, the rows apply_filters returns are     *)
(* those of the strict left-to-right fold of the clause masks: the first   *)
(* clause's rows, then AND or OR with each next clause by that clause's    *)
(* logic, without precedence; one clause returns exactly its matching rows.*)
(***************************************************************************)
C1_LeftToRightFold ==
    (op = "apply_filters" /\ filters # <<>> /\ AllEvaluate(data, filters))
        => result = RowsAt(data, Accumulated(data, filters, Len(filters)))

\* [A, (B, or), (C, and)] where (A or B) and C differs from A or (B and C)
C1_Witness ==
    /\ op = "apply_filters"
    /\ Len(filters) = 3
    /\ AllEvaluate(data, filters)
    /\ filters[2].logic = "or"
    /\ filters[3].logic = "and"
    /\ LET A == MatchingRows(data, filters[1])
           B == MatchingRows(data, filters[2])
           C == MatchingRows(data, filters[3])
       IN /\ (A \cup B) \cap C # A \cup (B \cap C)
          /\ result = RowsAt(data, (A \cup B) \cap C)

(***************************************************************************)
(* Runs of the engine on other inputs, for the claims that compare two.    *)
(***************************************************************************)
\* the table apply_filters returns for table df and clause list cs
FilterResult(df, cs) ==
    LET out == apply_filters(0 :> df, 0, cs) IN out.heap[out.ref]

\* the list without its k-th element
Without(list, k) ==
    [j \in 1..(Len(list) - 1) |-> IF j < k THEN list[j] ELSE list[j + 1]]

\* the masks the loop of apply_filters has collected for table df
LoopMasks(df, cs) == FilterLoop(LoopState(df, <<>>, FALSE), cs).masks

IsEmptyOperand(v) == IsNull(v) \/ (IsStr(v) /\ v.s = "")

\* the clause names a column of the table and a known type, and an operand
\* it needs is missing, empty or does not convert
OperandUnusable(df, c) ==
    /\ HasColumn(df, c.column)
    /\ \/ /\ c.type = "numeric"
          /\ \/ IsEmptyOperand(c.value) \/ ~FloatConverts(c.value)
             \/ /\ c.operator = "between"
                /\ (IsEmptyOperand(c.value2) \/ ~FloatConverts(c.value2))
       \/ /\ c.type = "year"
          /\ \/ IsEmptyOperand(c.value) \/ ~IntConverts(c.value)
             \/ /\ c.operator = "between"
                /\ (IsEmptyOperand(c.value2) \/ ~IntConverts(c.value2))
       \/ /\ c.type = "text"
          /\ IsEmptyOperand(c.value)

(***************************************************************************)
(* C2: a clause whose operand is missing, empty or does not convert is     *)
(* skipped: at every position and with either logic, apply_filters returns *)
(* what it returns for the clause list without that clause.                *)
(***************************************************************************)
C2_UnusableOperandSkipped ==
    op = "apply_filters" =>
        \A k \in 1..Len(filters) :
            OperandUnusable(data, filters[k])
                => result = FilterResult(data, Without(filters, k))

(***************************************************************************)
(* C3: the mask of every clause is computed on the original table, not on  *)
(* the rows earlier clauses left: a positional clause after the first      *)
(* marks the same row positions whatever precedes it, and the combined     *)
(* mask selects rows of the original table.                                *)
(***************************************************************************)
C3_MasksOnOriginalTable ==
    (op = "apply_filters" /\ filters # <<>> /\ AllEvaluate(data, filters)) =>
        LET masks == LoopMasks(data, filters)
        IN /\ Len(masks) = Len(filters)
           /\ \A k \in 1..Len(filters) :
                 masks[k].mask =
                    [i \in 1..NRows(data) |-> RowMatches(data, i, filters[k])]
           /\ result = SelectRows(data, FinalMask(masks))

\* a positional clause follows a clause that leaves only some rows, among
\* which it would pick other rows than in the whole table
C3_Witness ==
    /\ op = "apply_filters"
    /\ Len(filters) = 2
    /\ filters[2].type = "numeric"
    /\ filters[2].operator \in PositionalOperators
    /\ filters[2].logic = "and"
    /\ LET first == MatchingRows(data, filters[1])
           left == RowsAt(data, first)
       IN /\ first # 1..NRows(data)
          /\ result = RowsAt(data, first \cap MatchingRows(data, filters[2]))
          /\ result # RowsAt(left, MatchingRows(left, filters[2]))

(***************************************************************************)
(* C4: with an empty clause list, and with a clause list none of whose     *)
(* clauses can be evaluated, apply_filters returns the original table: the *)
(* same rows in the same order.                                            *)
(***************************************************************************)
C4_NoOpListReturnsTable ==
    (op = "apply_filters"
        /\ \A k \in 1..Len(filters) : ~ClauseEvaluates(data, filters[k]))
        => result = data

\* a list of two clauses with unusable operands, on a table with rows
C4_Witness ==
    /\ op = "apply_filters"
    /\ Len(filters) = 2
    /\ \A k \in 1..2 : OperandUnusable(data, filters[k])
    /\ NRows(data) = MaxRows
    /\ result = data

(***************************************************************************)
(* C5: a clause naming a column the table lacks, or an unknown filter      *)
(* type, is skipped without error: at every position and with either      *)
(* logic the result is that of the list without the clause.                *)
(***************************************************************************)
NotApplicable(df, c) ==
    c.column = "" \/ ~HasColumn(df, c.column) \/ c.type \notin KnownFilterTypes

C5_AbsentColumnSkipped ==
    op = "apply_filters" =>
        /\ ~raised
        /\ \A k \in 1..Len(filters) :
              NotApplicable(data, filters[k])
                  => result = FilterResult(data, Without(filters, k))

\* a clause on an absent column, with logic or, between two clauses that
\* filter: the rows returned are those of the other two
C5_Witness ==
    /\ op = "apply_filters"
    /\ Len(filters) = 3
    /\ ~HasColumn(data, filters[2].column)
    /\ filters[2].logic = "or"
    /\ ClauseEvaluates(data, filters[1])
    /\ ClauseEvaluates(data, filters[3])
    /\ result # data
    /\ result = RowsAt(data, Accumulated(data, Without(filters, 2), 2))

(***************************************************************************)
(* C6: the logic of the first clause is ignored: the same clause list with *)
(* the first clause's logic changed returns the same rows.                 *)
(***************************************************************************)
OtherLogic(l) == IF l = "and" THEN "or" ELSE "and"

C6_FirstLogicIgnored ==
    (op = "apply_filters" /\ filters # <<>>) =>
        result = FilterResult(data,
                    [filters EXCEPT ![1].logic = OtherLogic(filters[1].logic)])

\* the first clause says or and leaves only some of the rows
C6_Witness ==
    /\ op = "apply_filters"
    /\ Len(filters) >= 2
    /\ filters[1].logic = "or"
    /\ result # data
    /\ NRows(result) > 0

(***************************************************************************)
(* Runs of the pipeline on other inputs.                                   *)
(***************************************************************************)
\* the table t.apply(df) returns
TableAfterApply(t, df) ==
    LET out == apply(t, 0 :> df, 0) IN out.heap[out.ref]

\* the table apply_all returns for table df and the steps given
TableAfterAll(df, steps) ==
    LET out == apply_all(steps, 0 :> df, 0) IN out.heap[out.ref]

\* apply(s_k) of ... of apply(s_1) of df
RECURSIVE Composed(_, _, _)
Composed(df, steps, k) ==
    IF k = 0 THEN df ELSE TableAfterApply(steps[k], Composed(df, steps, k - 1))

Reversed(list) == [j \in 1..Len(list) |-> list[Len(list) - j + 1]]

\* step t aimed at another column
OnColumn(t, column) == [t EXCEPT !.column = column]

\* the operation of step t raises on the target column of df
StepFails(t, df) ==
    /\ HasColumn(df, t.column)
    /\ transformation_function(t, Series(df.index, df.cells[t.column])).err

(***************************************************************************)
(* C7: apply_all applies the steps in the order they were added: the       *)
(* result is apply(s_k) of ... of apply(s_1) of the input table.           *)
(***************************************************************************)
C7_StepsInInsertionOrder ==
    op = "apply_all"
        => result = Composed(data, transformations, Len(transformations))

\* two steps on one column whose order matters: the second has worked on
\* what the first wrote
C7_Witness ==
    /\ op = "apply_all"
    /\ Len(transformations) = 2
    /\ transformations[1].column = transformations[2].column
    /\ result # TableAfterAll(data, Reversed(transformations))
    /\ result # TableAfterApply(transformations[2], data)
    /\ result # TableAfterApply(transformations[1], data)

(***************************************************************************)
(* C8: apply, apply_all and apply_filters leave the table they are given   *)
(* as it was, whatever the step, pipeline or clause list, also when a step *)
(* fails.                                                                  *)
(***************************************************************************)
C8_ArgumentNotMutated ==
    [][op' \in {"apply", "apply_all", "apply_filters"} => data' = data]_vars

\* a call that returned a changed table, and one with a failing step
C8_Witness ==
    /\ op = "apply_all"
    /\ Len(transformations) = 2
    /\ StepFails(transformations[1], data)
    /\ result # data

(***************************************************************************)
(* C9: when the operation of a step raises, apply catches the error, does  *)
(* not raise and returns the table with the target column as it was; in    *)
(* apply_all the steps after the failing one are still applied.            *)
(***************************************************************************)
C9_FailingStepAbsorbed ==
    /\ (op = "apply" /\ StepFails(transformations[applied], data))
          => (~raised /\ result = data)
    /\ op = "apply_all"
          => /\ ~raised
             /\ \A k \in 1..Len(transformations) :
                   StepFails(transformations[k], Composed(data, transformations, k - 1))
                       => result = TableAfterAll(data, Without(transformations, k))

\* the first of two steps fails and the second changes the table
C9_Witness ==
    /\ op = "apply_all"
    /\ Len(transformations) = 2
    /\ StepFails(transformations[1], data)
    /\ ~raised
    /\ result # data
    /\ result = TableAfterApply(transformations[2], data)

(***************************************************************************)
(* C10: apply on a table without the target column does not raise and      *)
(* returns a table equal to the input: the same columns, rows and cells.   *)
(***************************************************************************)
C10_AbsentColumnIsNoOp ==
    /\ (op = "apply" /\ ~HasColumn(data, transformations[applied].column))
          => /\ ~raised
             /\ result.columns = data.columns
             /\ NRows(result) = NRows(data)
             /\ result = data
    /\ \A t \in Steps :
          LET out == apply(OnColumn(t, "zz"), 0 :> data, 0)
          IN ~out.raised /\ out.heap[out.ref] = data

\* a step on the absent column zz applied to a table with rows
C10_Witness ==
    /\ op = "apply"
    /\ ~HasColumn(data, transformations[applied].column)
    /\ NRows(data) > 0
    /\ result = data

(***************************************************************************)
(* Editing the parameters of a held step.                                  *)
(***************************************************************************)
\* DataTransformation.get_description: the operation, the column and the
\* parameters as the object holds them now
get_description(t) ==
    [operation |-> t.operation, column |-> t.column, parameters |-> t.parameters]

\* the steps whose parameters a session edits, and the edited values
EditSteps ==
    {DataTransformation("a", "REPLACE_CUSTOM", "value" :> Num(MaxVal + 1)),
     DataTransformation("a", "NUMERIC_LIMIT_RANGE", ("min" :> Num(0) @@ "max" :> Num(1)))}

EditedParameters ==
    {"value" :> Num(0), ("min" :> Num(MaxVal) @@ "max" :> Num(MaxVal))}

\* transformation.parameters = parameters: the attribute is rebound, the
\* function built by __init__ stays as it is
EditParameters(i, parameters) ==
    /\ i \in 1..Len(transformations)
    /\ transformations' = [transformations EXCEPT ![i].parameters = parameters]
    /\ reference' = [reference EXCEPT ![i].parameters = parameters]
    /\ result' = NoTable
    /\ op' = "edit_parameters"
    /\ applied' = 0
    /\ raised' = FALSE
    /\ UNCHANGED <<data, filters, profile, objects>>

NextEdit ==
    \/ \E t \in EditSteps : AddTransformation(t)
    \/ \E i \in 1..MaxSteps, parameters \in EditedParameters :
          EditParameters(i, parameters)
    \/ ApplyAll
    \/ \E i \in 1..MaxSteps : Apply(i)

SpecEdit == Init /\ [][NextEdit]_vars

\* a step newly constructed from what get_description reports
AsDescribed(t) ==
    LET d == get_description(t)
    IN DataTransformation(d.column, d.operation, d.parameters)

(***************************************************************************)
(* C11: after the parameters of a step are edited, the next apply uses the *)
(* edited values, the values get_description reports: it returns what a    *)
(* step constructed with these values returns.                             *)
(***************************************************************************)
C11_EditedParametersUsed ==
    op = "apply"
        => result = TableAfterApply(AsDescribed(transformations[applied]), data)

(***************************************************************************)
(* The step list and its descriptions.                                     *)
(***************************************************************************)
\* DataFrameTransformer.get_transformation_descriptions
get_transformation_descriptions(steps) ==
    [j \in 1..Len(steps) |-> get_description(steps[j])]

(***************************************************************************)
(* C12: after any sequence of add_transformation, remove_transformation    *)
(* and clear_transformations the step list equals the reference sequence   *)
(* kept under append-at-end, delete-at-index (nothing for an index outside *)
(* 0..len-1, negative ones included) and empty; the descriptions are one   *)
(* per step, in step order.                                                *)
(***************************************************************************)
C12_StepListIsReference ==
    /\ transformations = reference
    /\ LET d == get_transformation_descriptions(transformations)
       IN /\ Len(d) = Len(reference)
          /\ \A j \in 1..Len(reference) :
                /\ d[j].operation = reference[j].operation
                /\ d[j].column = reference[j].column
                /\ d[j].parameters = reference[j].parameters

\* a removal from a full list of different steps that left it as it was:
\* the index was outside 0..len-1
C12_Witness ==
    /\ op = "remove_transformation"
    /\ Len(transformations) = MaxSteps
    /\ transformations[1] # transformations[Len(transformations)]

TextCell(i) == CASE i % 3 = 1 -> Str(" x") [] i % 3 = 2 -> Str("Y ") [] OTHER -> Str("1")
FlagCell(i) == Bool(i % 2 = 1)

FamilyTable(acol) ==
    [index |-> RangeIndex(Len(acol)),
     columns |-> <<"a", "b", "f">>,
     cells |-> [c \in {"a", "b", "f"} |->
                  CASE c = "a" -> acol
                    [] c = "b" -> [i \in 1..Len(acol) |-> TextCell(i)]
                    [] c = "f" -> [i \in 1..Len(acol) |-> FlagCell(i)]]]

FamilyTables ==
    {FamilyTable(acol) : acol \in UNION {[1..n -> ACells] : n \in 0..MaxRows}}

NumericOperations ==
    {"NUMERIC_ROUND", "NUMERIC_NORMALIZE", "NUMERIC_STANDARDIZE",
     "NUMERIC_LIMIT_RANGE", "OUTLIER_REMOVE", "OUTLIER_WINSORIZE"}
TextOperations ==
    {"TEXT_LOWERCASE", "TEXT_UPPERCASE", "TEXT_TRIM", "TEXT_REPLACE"}

\* the parameters each operation is given
FamilyParameters(operation) ==
    CASE operation = "NUMERIC_ROUND" -> "decimals" :> Num(0)
      [] operation = "NUMERIC_LIMIT_RANGE" -> ("min" :> Num(0) @@ "max" :> Num(1))
      [] operation = "OUTLIER_REMOVE" -> "threshold" :> Num(1)
      [] operation = "TEXT_REPLACE" ->
            ("pattern" :> Str("Y") @@ "replacement" :> Str("x"))
      [] OTHER -> NoParameters

FamilySteps ==
    {DataTransformation(column, operation, FamilyParameters(operation)) :
        column \in {"a", "b", "f"}, operation \in NumericOperations \cup TextOperations}

InitFamily ==
    /\ data \in FamilyTables
    /\ filters = <<>>
    /\ transformations = <<>>
    /\ result = NoTable
    /\ op = "init"
    /\ applied = 0
    /\ raised = FALSE
    /\ reference = <<>>
    /\ profile = NoProfile
    /\ NoObjects

\* one step is held at a time and applied to the table
NextFamily ==
    \/ transformations = <<>> /\ \E t \in FamilySteps : AddTransformation(t)
    \/ ClearTransformations
    \/ Apply(1)

SpecFamily == InitFamily /\ [][NextFamily]_vars

\* the family of a column: text when it holds a text, boolean when it holds
\* bools, numeric when it holds numbers only
Family(col) ==
    IF HasText(col) THEN "text"
    ELSE IF \E i \in DOMAIN col : IsBool(col[i]) THEN "boolean"
    ELSE "numeric"

(***************************************************************************)
(* C14: a numeric operation applied to a column that is not numeric and a  *)
(* text operation applied to a column that is not text do not raise and    *)
(* return the column's values unchanged.                                   *)
(***************************************************************************)
C14_WrongFamilyIsNoOp ==
    (op = "apply" /\ HasColumn(data, transformations[applied].column))
        => LET t == transformations[applied]
               family == Family(data.cells[t.column])
           IN (\/ t.operation \in NumericOperations /\ family # "numeric"
               \/ t.operation \in TextOperations /\ family # "text")
                 => (~raised /\ result.cells[t.column] = data.cells[t.column])

(***************************************************************************)
(* One clause applied to a table.                                          *)
(***************************************************************************)
\* a long table: column a counts 0, 1, .., MaxVal and starts again
LongTable(n) ==
    [index |-> RangeIndex(n),
     columns |-> <<"a", "b">>,
     cells |-> [c \in {"a", "b"} |->
                  IF c = "a" THEN [i \in 1..n |-> Num((i - 1) % (MaxVal + 1))]
                  ELSE [i \in 1..n |-> BCell(i)]]]

OperatorTables == Tables \cup {LongTable(LongRows - 1), LongTable(LongRows)}

OperatorClauses ==
    {Clause("a", "numeric", "divisible_by", Str(v), Null, "and") : v \in {"0", "1", "2"}}
    \cup {Clause("a", "numeric", "every_nth", Str(v), Null, "and") : v \in {"1", "2", "5"}}
    \cup {Clause("b", "numeric", "every_nth", Str("2"), Null, "and")}
    \cup {Clause("a", "year", o, Str(v), Null, "and") :
             o \in {"first_n", "last_n"}, v \in {"0", "1", "2"}}

InitOperators ==
    /\ data \in OperatorTables
    /\ filters = <<>>
    /\ transformations = <<>>
    /\ result = NoTable
    /\ op = "init"
    /\ applied = 0
    /\ raised = FALSE
    /\ reference = <<>>
    /\ profile = NoProfile
    /\ NoObjects

\* the configuration holds one clause
NextOperators ==
    \/ filters = <<>> /\ \E c \in OperatorClauses : AddFilter(c)
    \/ ApplyFilters

SpecOperators == InitOperators /\ [][NextOperators]_vars

\* the one clause of the configuration has this type and operator
OnlyClause(type, operator) ==
    /\ op = "apply_filters"
    /\ Len(filters) = 1
    /\ filters[1].type = type
    /\ filters[1].operator = operator

(***************************************************************************)
(* C15: the numeric divisible_by clause keeps exactly the rows whose value *)
(* leaves remainder zero when divided by the operand; with a zero divisor  *)
(* no row matches.                                                         *)
(***************************************************************************)
C15_DivisibleBy ==
    OnlyClause("numeric", "divisible_by")
        => LET col == data.cells[filters[1].column]
               divisor == OperandNumber(filters[1].value)
           IN IF divisor = 0 THEN NRows(result) = 0
              ELSE result = SelectRows(data,
                       [i \in 1..NRows(data) |->
                           IsNum(col[i]) /\ col[i].n % divisor = 0])

\* the n smallest (largest) of the distinct numbers of a column
Smallest(values, n) ==
    {v \in values : Cardinality({w \in values : w < v}) < n}
Largest(values, n) ==
    {v \in values : Cardinality({w \in values : w > v}) < n}

(***************************************************************************)
(* C16: the year first_n / last_n clause with operand n >= 0 keeps exactly *)
(* the rows whose value is among the n smallest / n largest distinct       *)
(* values of the column, whatever the row order.                           *)
(***************************************************************************)
C16_YearFirstLastN ==
    (OnlyClause("year", "first_n") \/ OnlyClause("year", "last_n"))
        => LET col == data.cells[filters[1].column]
               n == OperandNumber(filters[1].value)
               values == {col[i].n : i \in {j \in DOMAIN col : IsNum(col[j])}}
               among == IF filters[1].operator = "first_n"
                        THEN Smallest(values, n) ELSE Largest(values, n)
           IN result = SelectRows(data,
                  [i \in 1..NRows(data) |-> IsNum(col[i]) /\ col[i].n \in among])

(***************************************************************************)
(* C17: the numeric every_nth clause with operand n > 0 on a table of N    *)
(* rows keeps exactly the rows at positions 0, n, 2n, ... below N, by row  *)
(* position and not by value.                                              *)
(***************************************************************************)
C17_EveryNthByPosition ==
    (OnlyClause("numeric", "every_nth") /\ OperandNumber(filters[1].value) > 0)
        => LET n == OperandNumber(filters[1].value)
           IN /\ result = SelectRows(data,
                     [i \in 1..NRows(data) |-> (i - 1) % n = 0])
              /\ Range(result.index) = {k \in 0..(NRows(data) - 1) : k % n = 0}

\* every 5th row of the long table: positions 0, 5, 10, ..
C17_Witness ==
    /\ OnlyClause("numeric", "every_nth")
    /\ OperandNumber(filters[1].value) = 5
    /\ NRows(data) = LongRows
    /\ NRows(result) = ((LongRows - 1) \div 5) + 1
    /\ \A j \in 1..NRows(result) : result.index[j] = 5 * (j - 1)

(***************************************************************************)
(* Filling the nulls of a number column.                                   *)
(***************************************************************************)
StatCells == {Num(1), Num(MaxVal), Num(100), Null}

\* the columns of the two tests, and every short column
MeanExample == <<Num(1), Num(2), Null, Num(4), Num(5)>>
MedianExample == <<Num(1), Num(2), Num(3), Null, Num(100)>>

StatTables ==
    {Table(acol) : acol \in UNION {[1..n -> StatCells] : n \in 0..MaxRows}}
    \cup {Table(MeanExample), Table(MedianExample)}

StatSteps ==
    {DataTransformation(column, operation, NoParameters) :
        column \in {"a", "b"}, operation \in {"REPLACE_MEAN", "REPLACE_MEDIAN"}}

InitStats ==
    /\ data \in StatTables
    /\ filters = <<>>
    /\ transformations = <<>>
    /\ result = NoTable
    /\ op = "init"
    /\ applied = 0
    /\ raised = FALSE
    /\ reference = <<>>
    /\ profile = NoProfile
    /\ NoObjects

NextStats ==
    \/ transformations = <<>> /\ \E t \in StatSteps : AddTransformation(t)
    \/ ClearTransformations
    \/ Apply(1)

SpecStats == InitStats /\ [][NextStats]_vars

\* the whole numbers a column holds, one per row that is not null
Rows(col) == {i \in DOMAIN col : IsNum(col[i])}

RECURSIVE Total(_, _)
Total(col, S) ==
    IF S = {} THEN 0
    ELSE LET i == CHOOSE i \in S : TRUE IN col[i].n + Total(col, S \ {i})

\* the cell m is the mean of the numbers of col
IsMeanOf(m, col) ==
    IsNum(m) /\ m.d > 0 /\ m.n * Cardinality(Rows(col)) = Total(col, Rows(col)) * m.d

\* the cell m is the median of the numbers of col: as many rows below it as
\* above it when no row holds it, and at most half the rows on either side
IsMedianOf(m, col) ==
    LET below == {i \in Rows(col) : col[i].n * m.d < m.n}
        above == {i \in Rows(col) : col[i].n * m.d > m.n}
        count == Cardinality(Rows(col))
    IN /\ IsNum(m) /\ m.d > 0
       /\ 2 * Cardinality(below) <= count
       /\ 2 * Cardinality(above) <= count
       /\ IF \E i \in Rows(col) : col[i].n * m.d = m.n THEN TRUE
          ELSE /\ Cardinality(below) = Cardinality(above)
               /\ \E i \in below, j \in above :
                     /\ \A k \in below : col[k].n <= col[i].n
                     /\ \A k \in above : col[k].n >= col[j].n
                     /\ 2 * m.n = (col[i].n + col[j].n) * m.d

\* replace-with-mean or -median was applied to the number column a, which
\* holds a number
FilledWith(operation) ==
    /\ op = "apply"
    /\ transformations[applied].operation = operation
    /\ transformations[applied].column = "a"
    /\ Rows(data.cells["a"]) # {}

(***************************************************************************)
(* C18: replace-with-mean and replace-with-median on a number column with  *)
(* a value that is not null leave no null: every null becomes the mean,    *)
(* respectively the median, of the values that are not null, and every     *)
(* other entry is unchanged; [1, 2, null, 4, 5] gets 3.0 and               *)
(* [1, 2, 3, null, 100] gets the median 2.5, not the mean 26.5.            *)
(***************************************************************************)
C18_MeanMedianFill ==
    /\ \A operation \in {"REPLACE_MEAN", "REPLACE_MEDIAN"} :
          FilledWith(operation)
             => LET before == data.cells["a"]
                    after == result.cells["a"]
                IN /\ ~raised
                   /\ Len(after) = Len(before)
                   /\ \A i \in DOMAIN before :
                         /\ ~IsNull(after[i])
                         /\ ~IsNull(before[i]) => after[i] = before[i]
                         /\ IsNull(before[i]) =>
                               IF operation = "REPLACE_MEAN"
                               THEN IsMeanOf(after[i], before)
                               ELSE IsMedianOf(after[i], before)
    /\ (FilledWith("REPLACE_MEAN") /\ data.cells["a"] = MeanExample)
          => result.cells["a"] = <<Num(1), Num(2), Num(3), Num(4), Num(5)>>
    /\ (FilledWith("REPLACE_MEDIAN") /\ data.cells["a"] = MedianExample)
          => /\ result.cells["a"][4] = Ratio(5, 2)
             /\ result.cells["a"][4] # Ratio(53, 2)

\* the skewed column filled with its median 2.5
C18_Witness ==
    /\ FilledWith("REPLACE_MEDIAN")
    /\ data.cells["a"] = MedianExample
    /\ result.cells["a"] = <<Num(1), Num(2), Num(3), Ratio(5, 2), Num(100)>>

(***************************************************************************)
(* Clipping a number column.                                               *)
(***************************************************************************)
ClipCells == {Num(0), Num(1), Num(MaxVal), Num(MaxVal + 1), Null}
ClipExample == <<Num(1), Num(25), Num(50), Num(75), Num(100)>>

ClipTables ==
    {Table(acol) : acol \in UNION {[1..n -> ClipCells] : n \in 0..MaxRows}}
    \cup {Table(ClipExample)}

\* the bounds: min <= max
ClipBounds ==
    {<<Num(lo), Num(hi)>> : lo, hi \in {1, MaxVal}} \cup {<<Num(20), Num(80)>>}

ClipSteps ==
    {DataTransformation(column, "NUMERIC_LIMIT_RANGE",
                        ("min" :> b[1] @@ "max" :> b[2])) :
        column \in {"a", "b"}, b \in {b \in ClipBounds : ~Less(b[2], b[1])}}

InitClip ==
    /\ data \in ClipTables
    /\ filters = <<>>
    /\ transformations = <<>>
    /\ result = NoTable
    /\ op = "init"
    /\ applied = 0
    /\ raised = FALSE
    /\ reference = <<>>
    /\ profile = NoProfile
    /\ NoObjects

NextClip ==
    \/ transformations = <<>> /\ \E t \in ClipSteps : AddTransformation(t)
    \/ ClearTransformations
    \/ Apply(1)

SpecClip == InitClip /\ [][NextClip]_vars

\* clip-to-range was applied to the number column a
Clipped ==
    /\ op = "apply"
    /\ transformations[applied].operation = "NUMERIC_LIMIT_RANGE"
    /\ transformations[applied].column = "a"

(***************************************************************************)
(* C19: clip-to-range with min <= max is inclusive and keeps the values    *)
(* inside: a value below min becomes min, one above max becomes max, one   *)
(* in [min, max] is unchanged, so every output lies in [min, max];         *)
(* [1, 25, 50, 75, 100] with min 20 and max 80 gives [20, 25, 50, 75, 80]. *)
(***************************************************************************)
C19_ClipToRange ==
    Clipped
        => LET lo == transformations[applied].parameters["min"].n
               hi == transformations[applied].parameters["max"].n
               before == data.cells["a"]
               after == result.cells["a"]
           IN /\ ~raised
              /\ Len(after) = Len(before)
              /\ \A i \in DOMAIN before :
                    IF IsNum(before[i])
                    THEN /\ IsNum(after[i]) /\ after[i].d = 1
                         /\ lo <= after[i].n /\ after[i].n <= hi
                         /\ before[i].n < lo => after[i].n = lo
                         /\ before[i].n > hi => after[i].n = hi
                         /\ (lo <= before[i].n /\ before[i].n <= hi)
                               => after[i] = before[i]
                    ELSE after[i] = before[i]
              /\ (before = ClipExample /\ lo = 20 /\ hi = 80)
                    => after = <<Num(20), Num(25), Num(50), Num(75), Num(80)>>

\* the column of the test clipped to [20, 80]
C19_Witness ==
    /\ Clipped
    /\ data.cells["a"] = ClipExample
    /\ transformations[applied].parameters["min"] = Num(20)
    /\ transformations[applied].parameters["max"] = Num(80)
    /\ result.cells["a"] = <<Num(20), Num(25), Num(50), Num(75), Num(80)>>

(***************************************************************************)
(* Column.from_series                                                      *)
(***************************************************************************)
\* Python's None, which is not the float NaN (Null)
NoneCell == [k |-> "none", n |-> 0, d |-> 1, s |-> ""]

\* None if isinstance(x, float) and pd.isna(x) else x
NoneIfNaN(x) == IF IsNull(x) THEN NoneCell ELSE x

\* Series.std() (ddof = 1): NaN below two values
series_std(series) ==
    LET var == series_var(series)
    IN IF IsNull(var) THEN Null ELSE SignedRoot(1, var)

\* the three counts every column gets
CountStats(series) ==
    LET v == NotNull(series.vals)
    IN ("count" :> Num(Len(v)))
       @@ ("null_count" :> Num(Len(series.vals) - Len(v)))
       @@ ("unique_count" :> Num(Len(Unique(v, Len(v)))))

\* the five statistics of a numeric column with a value that is not null
NumericStats(series) ==
    ("min" :> NoneIfNaN(series_min(series)))
    @@ ("max" :> NoneIfNaN(series_max(series)))
    @@ ("mean" :> NoneIfNaN(series_mean(series)))
    @@ ("median" :> NoneIfNaN(series_median(series)))
    @@ ("std" :> NoneIfNaN(series_std(series)))

\* the default values for an empty series
DefaultStats == [key \in {"min", "max", "mean", "median", "std"} |-> NoneCell]

\* the profile that computes the statistics of every numeric column, a
\* column without a value included
FromSeriesAlwaysComputing(name, series) ==
    [name |-> name,
     data_type |-> IF is_numeric_dtype(series) THEN "numeric" ELSE "text",
     original_type |-> dtype(series),
     stats |-> IF is_numeric_dtype(series)
               THEN CountStats(series)
                    @@ [key \in {"min", "max", "mean", "median", "std"} |->
                          CASE key = "min" -> series_min(series)
                            [] key = "max" -> series_max(series)
                            [] key = "mean" -> series_mean(series)
                            [] key = "median" -> series_median(series)
                            [] OTHER -> series_std(series)]
               ELSE CountStats(series)]

\* Column.from_series: the columns of the model are of a number dtype or of
\* object dtype, never datetime64 or categorical
from_series(name, series) ==
    LET data_type == IF is_numeric_dtype(series) THEN "numeric" ELSE "text"
        empty == series.vals = <<>>
        notna_any == \E i \in DOMAIN series.vals : ~IsNull(series.vals[i])
    IN [name |-> name,
        data_type |-> data_type,
        original_type |-> dtype(series),
        stats |-> IF data_type = "numeric"
                  THEN IF ~empty /\ notna_any
                       THEN CountStats(series) @@ NumericStats(series)
                       ELSE CountStats(series) @@ DefaultStats
                  ELSE CountStats(series)]

\* Column.from_series(col_name, self.data[col_name]) on one column
FromSeries(column) ==
    /\ column \in Range(data.columns)
    /\ \E out \in {from_series(column, Series(data.index, data.cells[column]))} :
          profile' = out
    /\ op' = "from_series"
    /\ UNCHANGED <<data, filters, transformations, result, applied, raised, reference,
                 objects>>

(***************************************************************************)
(* The columns of a table profiled one at a time.                          *)
(***************************************************************************)
\* whole numbers, a negative one among them, a half and NaN
ProfileCells == {Num(0 - 1), Num(0), Num(1), Num(MaxVal), Ratio(1, 2), Null}

\* an entirely null column of length 5
AllNullExample == <<Null, Null, Null, Null, Null>>

\* a table with a number column a and a text column b
ProfileTable(acol) ==
    [index |-> RangeIndex(Len(acol)),
     columns |-> <<"a", "b">>,
     cells |-> [c \in {"a", "b"} |->
                  IF c = "a" THEN acol ELSE [i \in 1..Len(acol) |-> TextCell(i)]]]

ProfileTables ==
    {ProfileTable(acol) :
        acol \in UNION {[1..n -> ProfileCells] : n \in 0..MaxRows} \cup {AllNullExample}}

InitProfile ==
    /\ data \in ProfileTables
    /\ filters = <<>>
    /\ transformations = <<>>
    /\ result = NoTable
    /\ op = "init"
    /\ applied = 0
    /\ raised = FALSE
    /\ reference = <<>>
    /\ profile = NoProfile
    /\ NoObjects

NextProfile == \E column \in {"a", "b"} : FromSeries(column)

SpecProfile == InitProfile /\ [][NextProfile]_vars

\* the cells of the column that was profiled
Profiled == data.cells[profile.name]

(***************************************************************************)
(* C20: for a numeric column that is empty or entirely null the profile    *)
(* has count = 0, null_count = the length of the column, unique_count = 0, *)
(* and min, max, mean, median and std are all present with the value None, *)
(* neither left out nor NaN.                                               *)
(***************************************************************************)
C20_EmptyNumericProfile ==
    (/\ op = "from_series"
     /\ profile.data_type = "numeric"
     /\ \A i \in DOMAIN Profiled : IsNull(Profiled[i]))
        => /\ profile.stats["count"] = Num(0)
           /\ profile.stats["null_count"] = Num(Len(Profiled))
           /\ profile.stats["unique_count"] = Num(0)
           /\ {"min", "max", "mean", "median", "std"} \subseteq DOMAIN profile.stats
           /\ \A key \in {"min", "max", "mean", "median", "std"} :
                 profile.stats[key] = NoneCell

\* the entirely null column of length 5 was profiled as numeric, and so was
\* the empty column
C20_Witness ==
    /\ op = "from_series"
    /\ profile.data_type = "numeric"
    /\ Profiled = AllNullExample
    /\ profile.stats["null_count"] = Num(5)

(***************************************************************************)
(* Dataset                                                                 *)
(***************************************************************************)
\* datetime.now(): the clock stands still or moves on
Now == {t \in {clock, clock + 1} : t <= MaxClock}

\* DataFrame.empty: no row or no column
IsEmptyFrame(df) == NRows(df) = 0 \/ df.columns = <<>>

\* Dataset._initialize_columns: one Column per column of the table, in order
initialize_columns(df) ==
    [i \in 1..Len(df.columns) |->
        from_series(df.columns[i], Series(df.index, df.cells[df.columns[i]]))]

\* Dataset.__post_init__: the columns are derived when none were given and
\* the table is not empty
post_init(df, columns) ==
    IF columns = <<>> /\ ~IsEmptyFrame(df) THEN initialize_columns(df) ELSE columns

\* Dataset.get_column_types: from the profiles when there are any, else from
\* the dtypes of the table
get_column_types(ds) ==
    IF ds.columns # <<>>
    THEN [name \in {ds.columns[i].name : i \in DOMAIN ds.columns} |->
             LET i == CHOOSE j \in DOMAIN ds.columns :
                         /\ ds.columns[j].name = name
                         /\ \A k \in DOMAIN ds.columns :
                               ds.columns[k].name = name => k <= j
             IN ds.columns[i].original_type]
    ELSE [name \in Range(ds.data.columns) |->
             dtype(Series(ds.data.index, ds.data.cells[name]))]

\* source_info: None, or a dictionary
NoSourceInfo == [none |-> TRUE, items |-> <<>>]
SourceInfo(items) == [none |-> FALSE, items |-> items]

\* the metadata computed from the table
ComputedMetadata(ds) ==
    ("rows" :> NRows(ds.data))
    @@ ("columns" :> Len(ds.data.columns))
    @@ ("column_types" :> get_column_types(ds))

\* the source information left out of the metadata
MetadataWithoutSourceInfo(ds, source_info) == ComputedMetadata(ds)

\* the metadata of generate_metadata: metadata.update(source_info) lets the
\* keys of source_info replace the computed ones
GeneratedMetadata(ds, source_info) ==
    IF source_info.none THEN ComputedMetadata(ds)
    ELSE source_info.items @@ ComputedMetadata(ds)

\* Dataset(data=df, metadata={}, created_at=now, modified_at=now[, columns])
NewDataset(columns) ==
    /\ \E now \in Now :
          /\ clock' = now
          /\ \E cols \in {post_init(data, columns)} :
                dataset' = [data |-> data, metadata |-> <<>>, created_at |-> now,
                            modified_at |-> now, columns |-> cols,
                            supplied |-> columns # <<>>]
    /\ op' = "Dataset"
    /\ UNCHANGED <<engine, raised, project, received, dialog>>

\* Dataset.generate_metadata(source_info)
GenerateMetadata(source_info) ==
    /\ dataset # NoDataset
    /\ \E now \in Now :
          /\ clock' = now
          /\ dataset' = [dataset EXCEPT
                            !.metadata = GeneratedMetadata(dataset, source_info),
                            !.modified_at = now]
    /\ op' = "generate_metadata"
    /\ UNCHANGED <<engine, raised, project, received, dialog>>

(***************************************************************************)
(* A Dataset built from a table and its metadata generated.                *)
(***************************************************************************)
\* pd.DataFrame(): no row and no column
EmptyFrame == [index |-> <<>>, columns |-> <<>>, cells |-> <<>>]

DatasetTables == ProfileTables \cup {EmptyFrame}

\* the columns a caller supplies: none, or the profile of another table
SuppliedColumns ==
    {<<>>, <<from_series("a", Series(<<0>>, <<Num(1)>>))>>}

\* the importer's source information, none, and one with a key of the
\* computed metadata
SourceInfos ==
    {NoSourceInfo,
     SourceInfo(<<>>),
     SourceInfo(("delimiter" :> ";") @@ ("encoding" :> "latin1")),
     SourceInfo(("rows" :> (0 - 1)) @@ ("delimiter" :> ";"))}

InitDataset ==
    /\ data \in DatasetTables
    /\ filters = <<>>
    /\ transformations = <<>>
    /\ result = NoTable
    /\ op = "init"
    /\ applied = 0
    /\ raised = FALSE
    /\ reference = <<>>
    /\ profile = NoProfile
    /\ NoObjects

NextDataset ==
    \/ \E columns \in SuppliedColumns : NewDataset(columns)
    \/ \E source_info \in SourceInfos : GenerateMetadata(source_info)

SpecDataset == InitDataset /\ [][NextDataset]_vars

(***************************************************************************)
(* C21: Dataset.columns is always consistent with the current table: in    *)
(* every reachable state of a Dataset constructed without supplied columns *)
(* columns holds exactly one profile per table column, in table column     *)
(* order, derived from the table's current values.                         *)
(***************************************************************************)
C21_ColumnsConsistent ==
    (dataset # NoDataset /\ ~dataset.supplied)
        => /\ Len(dataset.columns) = Len(dataset.data.columns)
           /\ \A i \in DOMAIN dataset.columns :
                 dataset.columns[i] =
                    from_series(dataset.data.columns[i],
                                Series(dataset.data.index,
                                       dataset.data.cells[dataset.data.columns[i]]))

(***************************************************************************)
(* C22: generate_metadata(source_info) sets metadata to rows = the number  *)
(* of table rows, columns = the number of table columns, column_types = the*)
(* per-column type snapshot, together with every key and value of          *)
(* source_info, and refreshes modified_at; the table, the column profiles  *)
(* and created_at are left unchanged.                                      *)
(***************************************************************************)
\* what the call leaves alone, and the time it stamps
MetadataFrame ==
    /\ dataset'.modified_at = clock'
    /\ dataset'.modified_at >= dataset.modified_at
    /\ dataset'.data = dataset.data
    /\ dataset'.columns = dataset.columns
    /\ dataset'.created_at = dataset.created_at
    /\ data' = data

\* the claim as stated: the three computed keys hold the computed values
\* whatever source_info holds
C22_MetadataAsStated ==
    [][\A source_info \in SourceInfos :
          GenerateMetadata(source_info)
             => /\ MetadataFrame
                /\ DOMAIN dataset'.metadata =
                      {"rows", "columns", "column_types"} \cup DOMAIN source_info.items
                /\ dataset'.metadata["rows"] = NRows(dataset.data)
                /\ dataset'.metadata["columns"] = Len(dataset.data.columns)
                /\ dataset'.metadata["column_types"] = get_column_types(dataset)
                /\ \A key \in DOMAIN source_info.items :
                      dataset'.metadata[key] = source_info.items[key]]_vars

\* C22 as amended: a key of source_info replaces the computed key of the
\* same name; the other computed keys hold the computed values
C22_MetadataGenerated ==
    [][\A source_info \in SourceInfos :
          GenerateMetadata(source_info)
             => /\ MetadataFrame
                /\ DOMAIN dataset'.metadata =
                      {"rows", "columns", "column_types"} \cup DOMAIN source_info.items
                /\ \A key \in DOMAIN source_info.items :
                      dataset'.metadata[key] = source_info.items[key]
                /\ "rows" \notin DOMAIN source_info.items
                      => dataset'.metadata["rows"] = NRows(dataset.data)
                /\ "columns" \notin DOMAIN source_info.items
                      => dataset'.metadata["columns"] = Len(dataset.data.columns)
                /\ "column_types" \notin DOMAIN source_info.items
                      => dataset'.metadata["column_types"] = get_column_types(dataset)]_vars

\* metadata was generated with the importer's source information, later
\* than the Dataset was created
C22_Witness ==
    /\ op = "generate_metadata"
    /\ NRows(dataset.data) = MaxRows
    /\ DOMAIN dataset.metadata = {"rows", "columns", "column_types", "delimiter", "encoding"}
    /\ dataset.metadata["rows"] = MaxRows
    /\ dataset.metadata["encoding"] = "latin1"
    /\ dataset.modified_at > dataset.created_at

(***************************************************************************)
(* Observable                                                              *)
(***************************************************************************)
\* the objects offered as observers: 1 and 2 have a callable
\* on_subject_change and record its calls, 0 is a plain object()
Observers == {0, 1, 2}
HasOnSubjectChange(observer) == observer # 0

\* the orders a set can be iterated in
Orders(S) ==
    {f \in [1..Cardinality(S) -> S] : \A i, j \in DOMAIN f : f[i] = f[j] => i = j}

\* the keyword arguments of a notification
Arguments(event, data_source, old_name, new_name) ==
    [event |-> event, data_source |-> data_source,
     old_name |-> old_name, new_name |-> new_name]

\* one call observer.on_subject_change(subject, **kwargs), with the name and
\* the data_sources the subject had when the call was made
Call(observer, subject, kwargs) ==
    [observer |-> observer, kwargs |-> kwargs,
     name |-> subject.name, data_sources |-> subject.data_sources]

\* the loop that stops after the first observer
NotifyFirstOnly(subject, kwargs) ==
    {IF f = <<>> THEN <<>> ELSE <<Call(f[1], subject, kwargs)>> :
        f \in Orders(subject._observers)}

\* Observable.notify_observers: one call per registered observer, in the
\* order the set is iterated
notify_observers(subject, kwargs) ==
    {[i \in DOMAIN f |-> Call(f[i], subject, kwargs)] : f \in Orders(subject._observers)}

\* every object is registered
AddAnyObserver(subject, observer) ==
    [subject |-> [subject EXCEPT !._observers = @ \cup {observer}], raised |-> FALSE]

\* Observable.add_observer: the subject after the call and whether TypeError
\* was raised
add_observer(subject, observer) ==
    IF HasOnSubjectChange(observer)
    THEN [subject |-> [subject EXCEPT !._observers = @ \cup {observer}], raised |-> FALSE]
    ELSE [subject |-> subject, raised |-> TRUE]

\* the observer is kept
KeepObserver(subject, observer) == subject

\* Observable.remove_observer: set.discard
remove_observer(subject, observer) ==
    [subject EXCEPT !._observers = @ \ {observer}]

(***************************************************************************)
(* _TrackingList: a Python list of data sources; a data source is known by *)
(* its id.  Indices are Python's: from 0, negative ones from the end.      *)
(***************************************************************************)
Position(index, len) == IF index < 0 THEN index + len + 1 ELSE index + 1
InRange(index, len) == Position(index, len) \in 1..len

\* list.remove: the first equal item goes
ListRemove(list, item) ==
    LET at == CHOOSE i \in DOMAIN list :
                 list[i] = item /\ \A j \in 1..(i - 1) : list[j] # item
    IN [j \in 1..(Len(list) - 1) |-> IF j < at THEN list[j] ELSE list[j + 1]]

\* del list[index] and list.pop(index)
ListDelete(list, index) ==
    LET at == Position(index, Len(list))
    IN [j \in 1..(Len(list) - 1) |-> IF j < at THEN list[j] ELSE list[j + 1]]

\* list.insert: an index beyond either end is the end
ListInsert(list, index, item) ==
    LET raw == Position(index, Len(list))
        at == IF raw < 1 THEN 1 ELSE IF raw > Len(list) + 1 THEN Len(list) + 1 ELSE raw
    IN [j \in 1..(Len(list) + 1) |->
           IF j < at THEN list[j] ELSE IF j = at THEN item ELSE list[j - 1]]

(***************************************************************************)
(* Project                                                                 *)
(***************************************************************************)
\* _last_saved_state: None, or a dictionary with the name and the list of
\* data sources; alias tells that the list is the project's own list object
NoState == [none |-> TRUE, name |-> "", data_sources |-> <<>>, alias |-> FALSE]
State(name, data_sources, alias) ==
    [none |-> FALSE, name |-> name, data_sources |-> data_sources, alias |-> alias]

\* Project(name, created=now, modified=now, data_sources): __post_init__
\* wraps the list and starts without observers
Project(name, now, data_sources) ==
    [name |-> name, modified |-> now, data_sources |-> data_sources,
     _last_saved_state |-> NoState, _collections_modified |-> FALSE,
     _observers |-> {}]

\* the callback that leaves the flag alone
OnCollectionModifiedFlagKept(p, now) == [p EXCEPT !.modified = now]

\* Project._on_collection_modified
on_collection_modified(p, now) ==
    [p EXCEPT !._collections_modified = TRUE, !.modified = now]

\* the length of the saved list of data sources as the project sees it now
SavedLength(p) ==
    IF p._last_saved_state.alias THEN Len(p.data_sources)
    ELSE Len(p._last_saved_state.data_sources)

\* the check that trusts the flag alone
HasUnsavedChangesByFlag(p) == p._collections_modified

\* Project.has_unsaved_changes
has_unsaved_changes(p) ==
    IF p._last_saved_state.none THEN TRUE
    ELSE IF p._collections_modified THEN TRUE
    ELSE IF p.name # p._last_saved_state.name THEN TRUE
    ELSE IF Len(p.data_sources) # SavedLength(p) THEN TRUE
    ELSE FALSE

(***************************************************************************)
(* The operations on a Project.  received holds the calls the operation    *)
(* made on the observers.                                                  *)
(***************************************************************************)
SourceIds == 1..MaxSources
Names == {"A", "B"}
Indices == (0 - 1)..MaxSources

\* the operation ends: the project it leaves, the calls it made, whether it
\* raised, and the time read last
Done(name, p, calls, exc, now) ==
    /\ project' = p
    /\ received' = calls
    /\ raised' = exc
    /\ op' = name
    /\ clock' = now
    /\ UNCHANGED <<engine, dataset, dialog>>

\* ProjectStore.create_new(name), or Project(...) over a loaded list
NewProject(name, data_sources) ==
    /\ project = NoProject
    /\ \E now \in Now : Done("Project", Project(name, now, data_sources), <<>>, FALSE, now)

\* a mutation of project.data_sources ends: the callback runs after the list
\* has changed, and not at all when the list raised
Tracked(name, list, exc) ==
    /\ project # NoProject
    /\ \E now \in Now :
          IF exc THEN Done(name, project, <<>>, TRUE, clock)
          ELSE Done(name, on_collection_modified([project EXCEPT !.data_sources = list], now),
                    <<>>, FALSE, now)

\* project.data_sources.append(item)
TrackingAppend(item) ==
    /\ Len(project.data_sources) < MaxSources
    /\ Tracked("append", project.data_sources \o <<item>>, FALSE)

\* project.data_sources.extend(iterable)
TrackingExtend(iterable) ==
    /\ Len(project.data_sources) + Len(iterable) <= MaxSources
    /\ Tracked("extend", project.data_sources \o iterable, FALSE)

\* project.data_sources.insert(index, item)
TrackingInsert(index, item) ==
    /\ Len(project.data_sources) < MaxSources
    /\ Tracked("insert", ListInsert(project.data_sources, index, item), FALSE)

\* project.data_sources.remove(item): ValueError when the item is absent
TrackingRemove(item) ==
    IF item \in Range(project.data_sources)
    THEN Tracked("remove", ListRemove(project.data_sources, item), FALSE)
    ELSE Tracked("remove", project.data_sources, TRUE)

\* project.data_sources.pop(index): IndexError out of range
TrackingPop(index) ==
    IF InRange(index, Len(project.data_sources))
    THEN Tracked("pop", ListDelete(project.data_sources, index), FALSE)
    ELSE Tracked("pop", project.data_sources, TRUE)

\* project.data_sources.clear()
TrackingClear == Tracked("clear", <<>>, FALSE)

\* project.data_sources[key] = value: IndexError out of range
TrackingSetItem(key, value) ==
    IF InRange(key, Len(project.data_sources))
    THEN Tracked("setitem",
                 [project.data_sources EXCEPT
                     ![Position(key, Len(project.data_sources))] = value], FALSE)
    ELSE Tracked("setitem", project.data_sources, TRUE)

\* del project.data_sources[key]: IndexError out of range
TrackingDelItem(key) ==
    IF InRange(key, Len(project.data_sources))
    THEN Tracked("delitem", ListDelete(project.data_sources, key), FALSE)
    ELSE Tracked("delitem", project.data_sources, TRUE)

\* the observers told before the list is changed
AddDataSourceNotifyingFirst(data_source) ==
    /\ project # NoProject
    /\ Len(project.data_sources) < MaxSources
    /\ \E now \in Now :
          \E calls \in notify_observers(project,
                          Arguments("data_source_added", data_source, "", "")) :
             Done("add_data_source",
                  on_collection_modified(
                      [project EXCEPT !.data_sources = @ \o <<data_source>>], now),
                  calls, FALSE, now)

\* Project.add_data_source
AddDataSource(data_source) ==
    /\ project # NoProject
    /\ Len(project.data_sources) < MaxSources
    /\ \E now \in Now :
          LET p == on_collection_modified(
                       [project EXCEPT !.data_sources = @ \o <<data_source>>], now)
          IN \E calls \in notify_observers(p,
                             Arguments("data_source_added", data_source, "", "")) :
                Done("add_data_source", p, calls, FALSE, now)

\* Project.remove_data_source
RemoveDataSource(data_source) ==
    /\ project # NoProject
    /\ IF data_source \in Range(project.data_sources)
       THEN \E now \in Now :
               LET p == on_collection_modified(
                            [project EXCEPT
                                !.data_sources = ListRemove(@, data_source)], now)
               IN \E calls \in notify_observers(p,
                                  Arguments("data_source_removed", data_source, "", "")) :
                     Done("remove_data_source", p, calls, FALSE, now)
       ELSE Done("remove_data_source", project, <<>>, FALSE, clock)

\* Project.rename
Rename(new_name) ==
    /\ project # NoProject
    /\ \E now \in Now :
          LET p == [project EXCEPT !.name = new_name, !.modified = now]
          IN \E calls \in notify_observers(p,
                             Arguments("renamed", 0, project.name, new_name)) :
                Done("rename", p, calls, FALSE, now)

\* project.name = name, the attribute assigned directly
SetName(name) ==
    /\ project # NoProject
    /\ Done("name", [project EXCEPT !.name = name], <<>>, FALSE, clock)

\* project.notify_observers(event=...)
NotifyObservers(event) ==
    /\ project # NoProject
    /\ \E calls \in notify_observers(project, Arguments(event, 0, "", "")) :
          Done("notify_observers", project, calls, FALSE, clock)

\* project.add_observer(observer)
AddObserver(observer) ==
    /\ project # NoProject
    /\ \E out \in {add_observer(project, observer)} :
          Done("add_observer", out.subject, <<>>, out.raised, clock)

\* project.remove_observer(observer)
RemoveObserver(observer) ==
    /\ project # NoProject
    /\ Done("remove_observer", remove_observer(project, observer), <<>>, FALSE, clock)

\* the setter that also clears the flag
SetSavedStateClearingFlag(p, state) ==
    [p EXCEPT !._last_saved_state = state, !._collections_modified = FALSE]

\* Project.set_saved_state
set_saved_state(p, state) == [p EXCEPT !._last_saved_state = state]

\* Project.set_collections_modified
set_collections_modified(p, modified) == [p EXCEPT !._collections_modified = modified]

\* Project.mark_as_saved
mark_as_saved(p, state) ==
    [p EXCEPT !._last_saved_state = state, !._collections_modified = FALSE]

\* the saved states a caller records: the current name with a copy of the
\* list or with the list itself, or an older name and list
SavedStates(p) ==
    {State(p.name, p.data_sources, FALSE), State(p.name, p.data_sources, TRUE),
     State("old", <<>>, FALSE)}

SetSavedState(state) ==
    /\ project # NoProject
    /\ Done("set_saved_state", set_saved_state(project, state), <<>>, FALSE, clock)

MarkAsSaved(state) ==
    /\ project # NoProject
    /\ Done("mark_as_saved", mark_as_saved(project, state), <<>>, FALSE, clock)

SetCollectionsModified(modified) ==
    /\ project # NoProject
    /\ Done("set_collections_modified", set_collections_modified(project, modified),
            <<>>, FALSE, clock)

\* ProjectStore.save: the file is written, then the saved state is recorded
\* with a copy of the list and the flag is cleared; a failure to write raises
\* ProjectError and records nothing
Save(written) ==
    /\ project # NoProject
    /\ \E now \in Now :
          IF written
          THEN Done("save",
                    set_collections_modified(
                        set_saved_state(project,
                                        State(project.name, project.data_sources, FALSE)),
                        FALSE),
                    <<>>, FALSE, now)
          ELSE Done("save", project, <<>>, TRUE, now)

(***************************************************************************)
(* A project edited and saved, without observers.                          *)
(***************************************************************************)
InitProject ==
    /\ data = NoTable
    /\ filters = <<>>
    /\ transformations = <<>>
    /\ result = NoTable
    /\ op = "init"
    /\ applied = 0
    /\ raised = FALSE
    /\ reference = <<>>
    /\ profile = NoProfile
    /\ NoObjects

NextSaved ==
    \/ \E name \in Names, data_sources \in {<<>>, <<1>>} : NewProject(name, data_sources)
    \/ \E item \in SourceIds : TrackingAppend(item)
    \/ TrackingClear
    \/ \E data_source \in SourceIds : AddDataSource(data_source)
    \/ \E data_source \in SourceIds : RemoveDataSource(data_source)
    \/ \E name \in Names : Rename(name)
    \/ \E name \in Names : SetName(name)
    \/ \E state \in SavedStates(project) : SetSavedState(state)
    \/ \E state \in SavedStates(project) : MarkAsSaved(state)
    \/ \E modified \in BOOLEAN : SetCollectionsModified(modified)
    \/ \E written \in BOOLEAN : Save(written)

SpecSaved == InitProject /\ [][NextSaved]_vars

\* the recorded saved state holds the current name and data-source list
Matches(p) ==
    /\ ~p._last_saved_state.none
    /\ p._last_saved_state.name = p.name
    /\ p._last_saved_state.alias \/ p._last_saved_state.data_sources = p.data_sources

(***************************************************************************)
(* C23: has_unsaved_changes is true for a project whose saved state was    *)
(* never recorded; it is false once a saved state matching the current     *)
(* name and data-source list has been recorded (set_saved_state, or a      *)
(* successful ProjectStore.save); it is true again after the name is       *)
(* changed or the data_sources list is mutated, and stays true until the   *)
(* next save.                                                              *)
(***************************************************************************)
\* the claim as stated
C23_UnsavedAsStated ==
    /\ [](project # NoProject
            => /\ project._last_saved_state.none => has_unsaved_changes(project)
               /\ (op = "set_saved_state" /\ Matches(project))
                     => ~has_unsaved_changes(project)
               /\ (op = "save" /\ ~raised) => ~has_unsaved_changes(project))
    /\ [][project # NoProject
            => /\ (project'.name # project.name
                     \/ project'.data_sources # project.data_sources)
                     => has_unsaved_changes(project')
               /\ (has_unsaved_changes(project)
                     /\ op' \notin {"save", "set_saved_state", "mark_as_saved"})
                     => has_unsaved_changes(project')]_vars

\* C23 as amended: it is false after a successful save or mark_as_saved of
\* a matching state, and after set_saved_state of a matching state exactly
\* when the collections-modified flag is clear; a mutated list keeps it true
\* until the flag is cleared, a changed name while the name differs from the
\* saved one
C23_UnsavedChanges ==
    /\ [](project # NoProject
            => /\ project._last_saved_state.none => has_unsaved_changes(project)
               /\ (op = "set_saved_state" /\ Matches(project))
                     => (has_unsaved_changes(project) <=> project._collections_modified)
               /\ (op = "mark_as_saved" /\ Matches(project))
                     => ~has_unsaved_changes(project)
               /\ (op = "save" /\ ~raised) => ~has_unsaved_changes(project)
               /\ (~project._last_saved_state.none
                     /\ project.name # project._last_saved_state.name)
                     => has_unsaved_changes(project))
    /\ [][project # NoProject
            => /\ project'.data_sources # project.data_sources
                     => has_unsaved_changes(project')
               /\ (project._collections_modified
                     /\ op' \notin {"save", "mark_as_saved", "set_collections_modified"})
                     => has_unsaved_changes(project')
               /\ (project._last_saved_state.none
                     /\ op' \notin {"save", "mark_as_saved", "set_saved_state"})
                     => has_unsaved_changes(project')]_vars

\* a saved project was renamed: the name differs from the saved one, the
\* list was not touched, and the project has unsaved changes again
C23_Witness ==
    /\ op = "rename"
    /\ ~project._last_saved_state.none
    /\ project.name # project._last_saved_state.name
    /\ ~project._collections_modified
    /\ has_unsaved_changes(project)

(***************************************************************************)
(* A project with observers that come and go.                              *)
(***************************************************************************)
Events == {"test", "name_changed"}

NextObserver ==
    \/ \E name \in Names, data_sources \in {<<>>, <<1>>} : NewProject(name, data_sources)
    \/ \E observer \in Observers : AddObserver(observer)
    \/ \E observer \in Observers : RemoveObserver(observer)
    \/ \E event \in Events : NotifyObservers(event)
    \/ \E data_source \in SourceIds : AddDataSource(data_source)
    \/ \E data_source \in SourceIds : RemoveDataSource(data_source)

SpecObserver == InitProject /\ [][NextObserver]_vars

\* every observer of the set was called exactly once, and nobody else, with
\* the given keyword arguments and the subject as it is after the operation
EachOnce(calls, observers, kwargs, subject) ==
    /\ Len(calls) = Cardinality(observers)
    /\ \A o \in observers : Cardinality({i \in DOMAIN calls : calls[i].observer = o}) = 1
    /\ \A i \in DOMAIN calls :
          /\ calls[i].observer \in observers
          /\ calls[i].kwargs = kwargs
          /\ calls[i].name = subject.name
          /\ calls[i].data_sources = subject.data_sources

\* how often the item occurs in the list
Occurrences(list, item) == Cardinality({i \in DOMAIN list : list[i] = item})

(***************************************************************************)
(* C24: add_data_source, and remove_data_source of a source that is in the *)
(* project, each notify every registered observer exactly once, with event *)
(* 'data_source_added' / 'data_source_removed' and the source, after the   *)
(* data_sources list has been updated; remove_data_source of a source that *)
(* is not in the project changes no state and notifies no observer.        *)
(***************************************************************************)
C24_SourceNotifications ==
    [][\A data_source \in SourceIds :
          /\ AddDataSource(data_source)
                => /\ project'.data_sources = project.data_sources \o <<data_source>>
                   /\ project'._observers = project._observers
                   /\ EachOnce(received', project._observers,
                               Arguments("data_source_added", data_source, "", ""),
                               project')
          /\ RemoveDataSource(data_source)
                => IF data_source \in Range(project.data_sources)
                   THEN /\ Len(project'.data_sources) = Len(project.data_sources) - 1
                        /\ Occurrences(project'.data_sources, data_source)
                              = Occurrences(project.data_sources, data_source) - 1
                        /\ project'._observers = project._observers
                        /\ EachOnce(received', project._observers,
                                    Arguments("data_source_removed", data_source, "", ""),
                                    project')
                   ELSE /\ project' = project
                        /\ received' = <<>>
                        /\ UNCHANGED <<clock, dataset, dialog, engine>>]_vars

\* two observers were told of a source removed from the project, when the
\* list no longer held it
C24_Witness ==
    /\ op = "remove_data_source"
    /\ project._observers = {1, 2}
    /\ Len(received) = 2
    /\ received[1].kwargs.event = "data_source_removed"
    /\ received[1].kwargs.data_source \notin Range(project.data_sources)
    /\ received[1].observer # received[2].observer

(***************************************************************************)
(* C25: add_observer registers only objects that have a callable           *)
(* on_subject_change and raises TypeError otherwise, leaving the observer  *)
(* set unchanged; notify_observers calls each currently registered         *)
(* observer exactly once with the subject and the given arguments; an      *)
(* observer removed with remove_observer receives no later notification.   *)
(***************************************************************************)
C25_Observable ==
    /\ [](project # NoProject
            => /\ \A o \in project._observers : HasOnSubjectChange(o)
               /\ \A i \in DOMAIN received : received[i].observer \in project._observers)
    /\ [][/\ \A observer \in Observers :
                /\ AddObserver(observer)
                      => IF HasOnSubjectChange(observer)
                         THEN /\ ~raised'
                              /\ project'._observers = project._observers \cup {observer}
                         ELSE /\ raised'
                              /\ project'._observers = project._observers
                /\ RemoveObserver(observer)
                      => project'._observers = project._observers \ {observer}
          /\ \A event \in Events :
                NotifyObservers(event)
                   => EachOnce(received', project._observers,
                               Arguments(event, 0, "", ""), project)]_vars

\* one of two observers was removed and the next notification reached the
\* other alone
C25_Witness ==
    /\ op = "notify_observers"
    /\ project._observers = {2}
    /\ Len(received) = 1
    /\ received[1].observer = 2
    /\ received[1].kwargs.event = "test"

(***************************************************************************)
(* The list of data sources mutated directly, beside the operations that   *)
(* notify.                                                                 *)
(***************************************************************************)
NextTracking ==
    \/ \E name \in Names : NewProject(name, <<>>)
    \/ AddObserver(1)
    \/ \E item \in SourceIds : TrackingAppend(item)
    \/ \E iterable \in {<<>>, <<1>>, <<1, 2>>} : TrackingExtend(iterable)
    \/ \E index \in Indices, item \in SourceIds : TrackingInsert(index, item)
    \/ \E item \in SourceIds : TrackingRemove(item)
    \/ \E index \in Indices : TrackingPop(index)
    \/ TrackingClear
    \/ \E key \in Indices, value \in SourceIds : TrackingSetItem(key, value)
    \/ \E key \in Indices : TrackingDelItem(key)
    \/ \E data_source \in SourceIds : AddDataSource(data_source)
    \/ \E data_source \in SourceIds : RemoveDataSource(data_source)
    \/ \E name \in Names : Rename(name)
    \/ NotifyObservers("data_sources_cleared")
    \/ SetCollectionsModified(FALSE)

SpecTracking == InitProject /\ [][NextTracking]_vars

\* one of the eight direct mutations of project.data_sources
DirectMutation ==
    \/ \E item \in SourceIds : TrackingAppend(item)
    \/ \E iterable \in {<<>>, <<1>>, <<1, 2>>} : TrackingExtend(iterable)
    \/ \E index \in Indices, item \in SourceIds : TrackingInsert(index, item)
    \/ \E item \in SourceIds : TrackingRemove(item)
    \/ \E index \in Indices : TrackingPop(index)
    \/ TrackingClear
    \/ \E key \in Indices, value \in SourceIds : TrackingSetItem(key, value)
    \/ \E key \in Indices : TrackingDelItem(key)

(***************************************************************************)
(* C27: every direct mutation of Project.data_sources (append, extend,     *)
(* insert, remove, pop, clear, item assignment, item deletion) sets the    *)
(* project's collections-modified flag and refreshes modified, but sends   *)
(* no observer notification; only add_data_source, remove_data_source,     *)
(* rename and explicit notify_observers calls notify.                      *)
(***************************************************************************)
C27_DirectMutationsSilent ==
    /\ [](received # <<>>
            => op \in {"add_data_source", "remove_data_source", "rename",
                       "notify_observers"})
    /\ [][(DirectMutation /\ ~raised')
            => /\ project'._collections_modified
               /\ project'.modified = clock'
               /\ project'.modified >= project.modified
               /\ received' = <<>>]_vars

\* the list was cleared directly while an observer was registered and the
\* flag was clear: the flag is set and the observer heard nothing
C27_Witness ==
    /\ op = "clear"
    /\ project._observers = {1}
    /\ project._collections_modified
    /\ project.data_sources = <<>>
    /\ received = <<>>

(***************************************************************************)
(* The filter tab of the visualization dialog.  A filter row holds the     *)
(* current text of its three combo boxes, the items of the filter type     *)
(* combo box, the keys of its value widgets and their texts.  The combo    *)
(* box texts with umlauts are written in ASCII.                            *)
(***************************************************************************)
MaxWidgets == 3

\* the first item of the column and the filter type combo boxes
Placeholder == "-- Bitte waehlen --"

\* the value of a clause that has none (Python None)
NoText == "<None>"

\* the columns of the dataset the dialog was opened on, with their dtype
column_names == <<"n", "t">>

ColumnDtype(column_name) == IF column_name = "n" THEN "numeric" ELSE "text"

\* a filter row as add_column_filter_widget builds it
NewWidget ==
    [logic_combo |-> "UND", column_combo |-> Placeholder,
     items |-> {Placeholder}, filter_type_combo |-> Placeholder,
     value_widgets |-> {}, text |-> "", text2 |-> ""]

\* on_filter_type_changed: the value widgets of the row are rebuilt
on_filter_type_changed(widget, filter_type) ==
    LET keys ==
            IF filter_type = "Zwischen" THEN {"min_value", "max_value"}
            ELSE IF filter_type = "Jeden n-ten Wert" THEN {"n_value"}
            ELSE IF filter_type = "Bestimmte Werte" THEN {"values"}
            ELSE IF filter_type \in {"Erste n Werte", "Letzte n Werte",
                                     "Erste n Jahre", "Letzte n Jahre",
                                     "Teilbar durch"} THEN {"n_value"}
            ELSE IF filter_type # Placeholder THEN {"value"}
            ELSE {}
    IN  [widget EXCEPT !.filter_type_combo = filter_type,
                       !.value_widgets = keys, !.text = "", !.text2 = ""]

\* the items on_filter_column_changed puts into the filter type combo box
FilterTypeItems(column_name) ==
    {Placeholder} \cup
    (IF column_name = Placeholder THEN {}
     ELSE {"Jeden n-ten Wert", "Bestimmte Werte", "Erste n Werte",
           "Letzte n Werte"} \cup
          (IF ColumnDtype(column_name) = "numeric"
           THEN {"Gleich", "Groesser als", "Kleiner als", "Zwischen",
                 "Teilbar durch"}
           ELSE {"Enthaelt", "Gleich", "Beginnt mit", "Endet mit"}))

\* on_filter_column_changed: the filter type combo box is cleared and
\* filled for the dtype of the column, which selects its first item
on_filter_column_changed(widget, column_name) ==
    on_filter_type_changed(
        [widget EXCEPT !.column_combo = column_name,
                       !.items = FilterTypeItems(column_name)],
        Placeholder)

\* update_filter_config, lines 1059-1104: the operator and the type
\* written for a filter type text
WrittenOperator(filter_type_text) ==
    CASE filter_type_text = "Gleich" -> "equals"
      [] filter_type_text = "Groesser als" -> "greater_than"
      [] filter_type_text = "Kleiner als" -> "less_than"
      [] filter_type_text = "Zwischen" -> "between"
      [] filter_type_text = "Teilbar durch" -> "divisible_by"
      [] filter_type_text = "Nach" -> "after"
      [] filter_type_text = "Vor" -> "before"
      [] filter_type_text = "Enthaelt" -> "contains"
      [] filter_type_text = "Beginnt mit" -> "starts_with"
      [] filter_type_text = "Endet mit" -> "ends_with"
      [] filter_type_text \in {"Erste n Jahre", "Erste n Werte"} -> "first_n"
      [] filter_type_text \in {"Letzte n Jahre", "Letzte n Werte"} -> "last_n"
      [] filter_type_text = "Jeden n-ten Wert" -> "every_nth"
      [] filter_type_text = "Bestimmte Werte" -> "specific_values"
      [] OTHER -> "contains"

WrittenType(filter_type_text) ==
    CASE filter_type_text \in {"Groesser als", "Kleiner als", "Zwischen",
                               "Teilbar durch", "Jeden n-ten Wert",
                               "Erste n Werte", "Letzte n Werte"} -> "numeric"
      [] filter_type_text \in {"Nach", "Vor"} -> "date"
      [] filter_type_text \in {"Erste n Jahre", "Letzte n Jahre"} -> "year"
      [] OTHER -> "text"

\* update_filter_config, lines 1106-1118: the values read from the row
WrittenValue(widget) ==
    IF "n_value" \in widget.value_widgets THEN widget.text
    ELSE IF "values" \in widget.value_widgets THEN widget.text
    ELSE IF "min_value" \in widget.value_widgets THEN widget.text
    ELSE IF "value" \in widget.value_widgets THEN widget.text
    ELSE NoText

WrittenValue2(widget) ==
    IF "max_value" \in widget.value_widgets THEN widget.text2 ELSE NoText

\* the row is left out of the configuration
Unselected(widget) ==
    \/ widget.column_combo = Placeholder
    \/ widget.filter_type_combo = Placeholder

\* the logic written for row i: the first row is always 'and'
WrittenLogic(widgets, i) ==
    IF i > 1 /\ widgets[i].logic_combo = "ODER" THEN "or" ELSE "and"

RECURSIVE CollectColumns(_, _)
CollectColumns(widgets, i) ==
    IF i > Len(widgets) THEN <<>>
    ELSE (IF Unselected(widgets[i]) THEN <<>>
          ELSE <<[column   |-> widgets[i].column_combo,
                  type     |-> WrittenType(widgets[i].filter_type_combo),
                  operator |-> WrittenOperator(widgets[i].filter_type_combo),
                  value    |-> WrittenValue(widgets[i]),
                  value2   |-> WrittenValue2(widgets[i]),
                  logic    |-> WrittenLogic(widgets, i)]>>)
         \o CollectColumns(widgets, i + 1)

\* update_filter_config: the 'columns' list of the filter configuration
update_filter_config(widgets) == CollectColumns(widgets, 1)

\* load_filter_settings, lines 1186-1222: the filter type text of a saved
\* operator and type
FilterTypeText(operator, data_type) ==
    CASE operator = "equals" -> "Gleich"
      [] operator = "greater_than" /\ data_type \in {"numeric", "year"}
            -> "Groesser als"
      [] operator = "less_than" /\ data_type \in {"numeric", "year"}
            -> "Kleiner als"
      [] operator = "between" /\ data_type \in {"numeric", "year", "date"}
            -> "Zwischen"
      [] operator = "divisible_by" /\ data_type = "numeric" -> "Teilbar durch"
      [] operator = "after" /\ data_type = "date" -> "Nach"
      [] operator = "before" /\ data_type = "date" -> "Vor"
      [] operator = "contains" /\ data_type = "text" -> "Enthaelt"
      [] operator = "starts_with" /\ data_type = "text" -> "Beginnt mit"
      [] operator = "ends_with" /\ data_type = "text" -> "Endet mit"
      [] operator = "first_n" /\ data_type = "year" -> "Erste n Jahre"
      [] operator = "last_n" /\ data_type = "year" -> "Letzte n Jahre"
      [] operator = "every_nth" /\ data_type = "numeric" -> "Jeden n-ten Wert"
      [] operator = "specific_values" /\ data_type = "text"
            -> "Bestimmte Werte"
      [] operator = "first_n" /\ data_type = "numeric" -> "Erste n Werte"
      [] operator = "last_n" /\ data_type = "numeric" -> "Letzte n Werte"
      [] OTHER -> Placeholder

\* load_filter_settings, lines 1171-1242: the row built for a saved clause
LoadedWidget(column_filter) ==
    LET named ==
            IF column_filter.column \in Range(column_names)
            THEN on_filter_column_changed(NewWidget, column_filter.column)
            ELSE NewWidget
        filter_type_text ==
            FilterTypeText(column_filter.operator, column_filter.type)
        typed ==
            IF /\ filter_type_text \in named.items
               /\ filter_type_text # named.filter_type_combo
            THEN on_filter_type_changed(named, filter_type_text)
            ELSE named
        first ==
            IF /\ column_filter.value # NoText
               /\ typed.value_widgets \cap {"value", "min_value"} # {}
            THEN column_filter.value ELSE typed.text
        second ==
            IF /\ column_filter.value2 # NoText
               /\ "max_value" \in typed.value_widgets
            THEN column_filter.value2 ELSE typed.text2
    IN  [typed EXCEPT !.text = first, !.text2 = second]

\* load_filter_settings, lines 1245-1256: the logic shown in row i > 1 is
\* read from column_filters[i-1] counted from 0, the clause before it
SavedLogicForWidget(column_filters, i) ==
    column_filters[i - 1].logic

\* load_filter_settings: the rows after loading the saved clauses
load_filter_settings(column_filters) ==
    [i \in 1..Len(column_filters) |->
        LET widget == LoadedWidget(column_filters[i])
        IN  IF i > 1
            THEN [widget EXCEPT !.logic_combo =
                    IF SavedLogicForWidget(column_filters, i) = "and"
                    THEN "UND" ELSE "ODER"]
            ELSE widget]

\* every handler of the filter tab ends with the configuration rewritten
\* from the rows
Shown(name, widgets) ==
    /\ dialog' = [column_filter_widgets |-> widgets,
                  filter |-> update_filter_config(widgets)]
    /\ op' = name
    /\ UNCHANGED <<engine, raised, dataset, clock, project, received>>

AddColumnFilterWidget ==
    /\ Len(dialog.column_filter_widgets) < MaxWidgets
    /\ Shown("add_column_filter_widget",
             Append(dialog.column_filter_widgets, NewWidget))

RemoveColumnFilterWidget(i) ==
    /\ i \in 1..Len(dialog.column_filter_widgets)
    /\ Shown("remove_column_filter_widget",
             ListDelete(dialog.column_filter_widgets, i - 1))

\* the user picks UND or ODER in row i: currentTextChanged is connected
\* to update_filter_config
LogicChanged(i, logic_text) ==
    /\ i \in 1..Len(dialog.column_filter_widgets)
    /\ dialog.column_filter_widgets[i].logic_combo # logic_text
    /\ Shown("update_filter_config",
             [dialog.column_filter_widgets EXCEPT ![i].logic_combo = logic_text])

LoadFilterSettings(column_filters) ==
    \E widgets \in {load_filter_settings(column_filters)} :
        Shown("load_filter_settings", widgets)

\* the user picks a column in row i
ColumnChanged(i, column_name) ==
    /\ i \in 1..Len(dialog.column_filter_widgets)
    /\ dialog.column_filter_widgets[i].column_combo # column_name
    /\ Shown("on_filter_column_changed",
             [dialog.column_filter_widgets EXCEPT
                ![i] = on_filter_column_changed(@, column_name)])

\* the user picks one of the items of the filter type combo box of row i
FilterTypeChanged(i, filter_type) ==
    /\ i \in 1..Len(dialog.column_filter_widgets)
    /\ filter_type \in dialog.column_filter_widgets[i].items
    /\ dialog.column_filter_widgets[i].filter_type_combo # filter_type
    /\ Shown("on_filter_type_changed",
             [dialog.column_filter_widgets EXCEPT
                ![i] = on_filter_type_changed(@, filter_type)])

\* the user types into a value field of row i: textChanged is connected
\* to update_filter_config
ValueChanged(i, key, value) ==
    /\ i \in 1..Len(dialog.column_filter_widgets)
    /\ key \in dialog.column_filter_widgets[i].value_widgets
    /\ IF key = "max_value"
       THEN /\ dialog.column_filter_widgets[i].text2 # value
            /\ Shown("update_filter_config",
                     [dialog.column_filter_widgets EXCEPT ![i].text2 = value])
       ELSE /\ dialog.column_filter_widgets[i].text # value
            /\ Shown("update_filter_config",
                     [dialog.column_filter_widgets EXCEPT ![i].text = value])

\* the filter types the user picks from
FilterTypes == {Placeholder, "Gleich", "Groesser als", "Zwischen", "Enthaelt"}

(***************************************************************************)
(* The dialog edited by the user, accepted, and opened again on the        *)
(* visualization it wrote: load_filter_settings reads the configuration    *)
(* that update_filter_config wrote last.                                   *)
(***************************************************************************)
NextDialog ==
    \/ AddColumnFilterWidget
    \/ \E i \in 1..MaxWidgets : RemoveColumnFilterWidget(i)
    \/ \E i \in 1..MaxWidgets, column_name \in Range(column_names) \cup {Placeholder} :
            ColumnChanged(i, column_name)
    \/ \E i \in 1..MaxWidgets, filter_type \in FilterTypes :
            FilterTypeChanged(i, filter_type)
    \/ \E i \in 1..MaxWidgets, logic_text \in {"UND", "ODER"} :
            LogicChanged(i, logic_text)
    \/ \E i \in 1..MaxWidgets, key \in {"value", "min_value", "max_value"} :
            ValueChanged(i, key, "1")
    \/ LoadFilterSettings(dialog.filter)

SpecDialog == InitProject /\ [][NextDialog]_vars

\* C28: loading the clause list the dialog wrote and writing it back without
\* an edit keeps the logic of every clause after the first, for each list
\* whose clauses are all shown again
C28_LogicRoundTrip ==
    [][LoadFilterSettings(dialog.filter) =>
        (Len(dialog'.filter) = Len(dialog.filter) =>
            \A i \in 2..Len(dialog.filter) :
                dialog'.filter[i].logic = dialog.filter[i].logic)]_vars

(***************************************************************************)
(* The filter engine on tables whose row labels repeat.  A clause that     *)
(* keeps no row leaves a mask labelled like the table; such a mask is      *)
(* combined with the masks built after the labels were reset only when it  *)
(* follows them, so the clause lists here start with a clause that keeps   *)
(* a row.                                                                  *)
(***************************************************************************)
\* the table with its rows labelled anew
Relabelled(df, labels) == [df EXCEPT !.index = labels]

\* the tables of the model under every labelling with 0 and 1 that repeats
\* a label
DuplicateTables ==
    {Relabelled(df, labels) :
        df \in {t \in Tables : NRows(t) >= 2},
        labels \in UNION {[1..n -> {0, 1}] : n \in 2..MaxRows}}

InitReindex ==
    /\ data \in {df \in DuplicateTables :
                    /\ Len(df.index) = Len(df.cells["a"])
                    /\ ~IndexIsUnique(df)}
    /\ filters = <<>>
    /\ transformations = <<>>
    /\ result = NoTable
    /\ op = "init"
    /\ applied = 0
    /\ raised = FALSE
    /\ reference = <<>>
    /\ profile = NoProfile
    /\ NoObjects

\* the first clause of the list keeps a row of the table
FirstKeepsRow ==
    /\ filters # <<>>
    /\ \E r \in {ApplyTypeFilter(data, filters[1])} :
            ~r.raised /\ NRows(r.df) > 0

NextReindex ==
    \/ filters = <<>> /\ \E c \in EvalClauses : AddFilter(c)
    \/ FirstKeepsRow /\ \E c \in EvalClauses : AddFilter(c)
    \/ ApplyFilters

SpecReindex == InitReindex /\ [][NextReindex]_vars

\* C26: on a table whose row labels repeat, apply_filters returns the rows
\* it returns for the same table labelled 0..n-1
C26_ReindexedAsUnique ==
    (op = "apply_filters" /\ ~IndexIsUnique(data)) =>
        \E unique \in {apply_filters(0 :> ResetIndex(data), 0, filters)} :
            result.cells = unique.heap[unique.ref].cells

(***************************************************************************)
(* The rows of the filter result against the rows of the table.            *)
(***************************************************************************)
\* row i of a table: its label and its cells
RowAt(df, i) == <<df.index[i], [c \in DOMAIN df.cells |-> df.cells[c][i]]>>

\* the rows of sub from i on are found, in their order, among the rows of
\* whole from j on, each row of whole used once
RECURSIVE IsSubSequence(_, _, _, _)
IsSubSequence(sub, i, whole, j) ==
    IF i > NRows(sub) THEN TRUE
    ELSE IF j > NRows(whole) THEN FALSE
    ELSE IF RowAt(sub, i) = RowAt(whole, j)
         THEN IsSubSequence(sub, i + 1, whole, j + 1)
         ELSE IsSubSequence(sub, i, whole, j + 1)

\* C29: the table apply_filters returns has the columns of the input table
\* and its rows are rows of the input in the input's order, none twice,
\* none altered
C29_ResultIsSubSequence ==
    op = "apply_filters" =>
        /\ result.columns = data.columns
        /\ DOMAIN result.cells = DOMAIN data.cells
        /\ IsSubSequence(result, 1, data, 1)

\* a list of clauses has kept the second of two rows
C29_Witness ==
    /\ op = "apply_filters"
    /\ filters # <<>>
    /\ NRows(data) = 2
    /\ result.index = <<1>>
    /\ IsSubSequence(result, 1, data, 1)

(***************************************************************************)
(* The shape of the table apply_all returns.                               *)
(***************************************************************************)
\* the columns no step of the pipeline names
Untouched(df, steps) ==
    {c \in Range(df.columns) : \A i \in 1..Len(steps) : steps[i].column # c}

\* C30: the table apply_all returns has as many rows as the input and the
\* input's column names in the input's order, and each column that no step
\* names holds the input's cells
C30_ShapePreserved ==
    op = "apply_all" =>
        /\ NRows(result) = NRows(data)
        /\ result.columns = data.columns
        /\ \A c \in Untouched(data, transformations) :
                /\ Len(result.cells[c]) = NRows(data)
                /\ result.cells[c] = data.cells[c]

\* a pipeline of MaxSteps steps has changed column a of a table of MaxRows
\* rows, one of them with a null, and named no other column of the table
C30_Witness ==
    /\ op = "apply_all"
    /\ Len(transformations) = MaxSteps
    /\ NRows(data) = MaxRows
    /\ \E i \in 1..NRows(data) : IsNull(data.cells["a"][i])
    /\ result.cells["a"] # data.cells["a"]
    /\ Untouched(data, transformations) = {"b"}
    /\ result.cells["b"] = data.cells["b"]
    /\ NRows(result) = MaxRows

====
